---- MODULE Spec2Model ----
(***************************************************************************)
(* A model of the stock / credit / loyalty reconciliation core of the HAMU *)
(* backend: the append-only stock ledger and its manual adjustment view,   *)
(* the create handlers of sales, refills, credit payments, expenses, meter *)
(* readings and customers with their offline-sync idempotency gate, and    *)
(* the credit figures derived from the history.                            *)
(***************************************************************************)
EXTENDS Integers, Sequences, FiniteSets, TLC

VARIABLES
    stockLog,        \* StockLog rows, in insertion order
    sales,           \* Sales rows
    refills,         \* Refills rows
    credits,         \* Credits rows
    expenses,        \* Expenses rows
    meterReadings,   \* MeterReading rows
    customers,       \* Customers rows
    interval,        \* Shops.freeRefillInterval of the shop
    stockItems,      \* the item types the shop has a StockItem row for
    inflight,        \* per worker: the request it is in the middle of
    resp             \* the last request handled and what it returned

vars == <<stockLog, sales, refills, credits, expenses, meterReadings, customers,
          interval, stockItems, inflight, resp>>

tables == <<sales, refills, credits, expenses, meterReadings, customers>>

(***************************************************************************)
(* Bounds of the model.                                                    *)
(***************************************************************************)
MaxLog == 3
MaxRows == 2
MaxPrior == 9

(***************************************************************************)
(* Reference data.                                                         *)
(***************************************************************************)
NoKey == 0
NoCustomer == 0
Keys == {1, 2}
Customers == {1}
Items == {"bottle", "label", "cap"}
SalePackage == [id |-> 1, price |-> 3, sale_type |-> "sale"]
RefillPackage == [id |-> 2, price |-> 2, sale_type |-> "refill"]
Intervals == {0, 2}
Workers == {1, 2}
\* no request is in progress
Idle == [w \in Workers |-> [pc |-> "idle"]]

Min(a, b) == IF a < b THEN a ELSE b
Max(a, b) == IF a > b THEN a ELSE b

RECURSIVE SumSeq(_)
SumSeq(s) == IF s = <<>> THEN 0 ELSE Head(s) + SumSeq(Tail(s))

RECURSIVE SelectIdx(_, _)
\* the indices i (ascending, from n) at which the filter `hit` is TRUE
SelectIdx(hit, n) ==
    IF n > Len(hit) THEN <<>>
    ELSE IF hit[n] THEN <<n>> \o SelectIdx(hit, n + 1)
         ELSE SelectIdx(hit, n + 1)

\* timezone.now(): later than the timestamp of every row written so far
Now == 1 + Len(sales) + Len(refills) + Len(credits) + Len(expenses)
         + Len(meterReadings) + Len(customers)

(***************************************************************************)
(* Stock ledger (stock/services.py, StockCalculationService).              *)
(***************************************************************************)
\* the quantity_change of the log entries of an item, in log order
ChangesOf(log, item) ==
    LET hits == SelectIdx([k \in 1..Len(log) |-> log[k].item = item], 1)
    IN  [k \in 1..Len(hits) |-> log[hits[k]].quantity_change]

get_current_stock_level(item) == SumSeq(ChangesOf(stockLog, item))

deduct_stock_for_sale(sale) ==
    << [item |-> "bottle", quantity_change |-> -sale.quantity,
        notes |-> "sale", ref |-> sale.id],
       [item |-> "label", quantity_change |-> -sale.quantity,
        notes |-> "sale", ref |-> sale.id] >>

deduct_caps_and_labels_for_refill(refill) ==
    << [item |-> "cap", quantity_change |-> -refill.quantity,
        notes |-> "refill", ref |-> refill.id],
       [item |-> "label", quantity_change |-> -refill.quantity,
        notes |-> "refill", ref |-> refill.id] >>

\* the item types a deduction needs a StockItem row for
RequiredForSale == {"bottle", "label"}
RequiredForRefill == {"cap", "label"}

\* what the engine signals: a mapping that cannot be resolved is reported
\* as an error before any entry is written
DeductionError(required) ==
    IF required \subseteq stockItems THEN "none" ELSE "ValueError"

(***************************************************************************)
(* Transactions: the points of a create handler at which an unexpected     *)
(* failure (or a crash of the process) can strike, and what stays visible. *)
(***************************************************************************)
\* after stage 1 the record is written, after 2 the deduction, after 3 the
\* overpayment credit, after 4 the applied credit
FaultPoint(fault) ==
    CASE fault = "after_create" -> 1
      [] fault = "after_deduct" -> 2
      [] fault = "after_overpayment" -> 3
      [] fault = "none" -> 4

\* create running without a transaction around it
TransactionAtomicNever(op) == FALSE

\* @transaction.atomic on SalesSerializer.create and RefillSerializer.create
TransactionAtomic(op) == op \in {"create_sale", "create_refill"}

\* how many stages of the handler are visible afterwards, when it ran with
\* `fault` and its deduction error (if any) was `escaped` out of the handler
StagesVisible(op, fault, escaped) ==
    LET point == IF escaped THEN 1 ELSE FaultPoint(fault)
    IN  IF fault = "none" /\ ~escaped THEN 4
        ELSE IF TransactionAtomic(op) THEN 0
        ELSE point

(***************************************************************************)
(* Manual adjustment: InventoryAdjustmentView.post.                        *)
(***************************************************************************)
\* zero taken for a valid magnitude
validate_quantityNonNegative(value) == value >= 0

\* the sign of the magnitude left unchecked
validate_quantityNonZero(value) == value # 0

validate_quantity(value) == value > 0

\* `set` appending the target value instead of the difference to it
AdjustmentChangeSetAbsolute(adjustment_type, quantity, current_quantity) ==
    CASE adjustment_type = "add" -> quantity
      [] adjustment_type = "subtract" -> -quantity
      [] adjustment_type = "set" -> quantity

AdjustmentChange(adjustment_type, quantity, current_quantity) ==
    CASE adjustment_type = "add" -> quantity
      [] adjustment_type = "subtract" -> -quantity
      [] adjustment_type = "set" -> quantity - current_quantity

\* a sign slip in the subtract branch
AdjustmentNewQuantitySignSlip(adjustment_type, quantity, current_quantity) ==
    CASE adjustment_type = "add" -> current_quantity + quantity
      [] adjustment_type = "subtract" -> current_quantity + quantity
      [] adjustment_type = "set" -> quantity

AdjustmentNewQuantity(adjustment_type, quantity, current_quantity) ==
    CASE adjustment_type = "add" -> current_quantity + quantity
      [] adjustment_type = "subtract" -> current_quantity - quantity
      [] adjustment_type = "set" -> quantity

\* the stock check refusing to empty the item
AdjustmentRejectedAtZero(adjustment_type, quantity, current_quantity) ==
    /\ adjustment_type = "subtract"
    /\ AdjustmentNewQuantity(adjustment_type, quantity, current_quantity) <= 0

AdjustmentRejected(adjustment_type, quantity, current_quantity) ==
    /\ adjustment_type = "subtract"
    /\ AdjustmentNewQuantity(adjustment_type, quantity, current_quantity) < 0

\* the adjustment kept as one running row per item, updated in place
StockLogSaveInPlace(log, entry) ==
    LET hits == SelectIdx([k \in 1..Len(log) |-> log[k].item = entry.item], 1)
    IN  IF hits = <<>> THEN Append(log, entry)
        ELSE [log EXCEPT ![hits[Len(hits)]].quantity_change =
                            @ + entry.quantity_change]

\* StockLog(...).save() of a new object: one more row, none touched
StockLogSave(log, entry) == Append(log, entry)

\* the view from its stock-level read on: `current_quantity` is what it read
InventoryAdjustmentApply(item, adjustment_type, quantity, current_quantity) ==
    LET quantity_change == AdjustmentChange(adjustment_type, quantity, current_quantity)
        new_quantity == AdjustmentNewQuantity(adjustment_type, quantity, current_quantity)
        request == [item |-> item, adjustment_type |-> adjustment_type,
                    quantity |-> quantity]
    IN  /\ UNCHANGED <<tables, interval, stockItems>>
        /\ IF ~validate_quantity(quantity)
           THEN /\ resp' = [op |-> "adjust", status |-> 400, created |-> FALSE,
                            sms |-> "none", request |-> request,
                            rec |-> [error |-> "Quantity must be a positive number"]]
                /\ UNCHANGED stockLog
           ELSE IF item \notin stockItems
           THEN /\ resp' = [op |-> "adjust", status |-> 404, created |-> FALSE,
                            sms |-> "none", request |-> request,
                            rec |-> [error |-> "Stock item not found"]]
                /\ UNCHANGED stockLog
           ELSE IF AdjustmentRejected(adjustment_type, quantity, current_quantity)
           THEN /\ resp' = [op |-> "adjust", status |-> 400, created |-> FALSE,
                            sms |-> "none", request |-> request,
                            rec |-> [error |-> "Not enough stock",
                                     current_quantity |-> current_quantity]]
                /\ UNCHANGED stockLog
           ELSE /\ stockLog' = StockLogSave(stockLog,
                        [item |-> item, quantity_change |-> quantity_change,
                         notes |-> "Manual adjustment", ref |-> 0])
                /\ resp' = [op |-> "adjust", status |-> 200, created |-> TRUE,
                            sms |-> "none", request |-> request,
                            rec |-> [previous_quantity |-> current_quantity,
                                     quantity_changed |-> quantity_change,
                                     new_quantity |-> new_quantity]]

InventoryAdjustmentPost(item, adjustment_type, quantity) ==
    /\ InventoryAdjustmentApply(item, adjustment_type, quantity,
                                get_current_stock_level(item))
    /\ UNCHANGED inflight

\* AnalyticsViewSet.inventory: the quantity reported for a stock item
InventoryQuantity(item) == get_current_stock_level(item)

(***************************************************************************)
(* The offline-sync idempotency gate shared by the create handlers:        *)
(* Model.objects.filter(client_id=client_id).first()                       *)
(***************************************************************************)
\* a lookup that drops the client_id filter: Model.objects.first()
FilterFirstAny(table, client_id) == IF table = <<>> THEN 0 ELSE 1

FilterFirst(table, client_id) ==
    LET hits == SelectIdx([k \in 1..Len(table) |->
                              table[k].client_id = client_id], 1)
    IN  IF hits = <<>> THEN 0 ELSE hits[1]

\* the handler returns the existing row and creates nothing
ShortCircuits(table, client_id) ==
    client_id # NoKey /\ FilterFirst(table, client_id) # 0

(***************************************************************************)
(* SalesSerializer.create                                                  *)
(***************************************************************************)
\* create_sale without its client_id check
SaleExistingNever(req) == 0

\* `existing`: the index of the row the handler returns instead of creating
\* one, 0 when it goes on to create
SaleExisting(req) ==
    IF ShortCircuits(sales, req.client_id) THEN FilterFirst(sales, req.client_id) ELSE 0

\* the deduction error left to propagate
SaleDeductionWarningNone(error) == FALSE

\* except ValueError: the error is printed and the sale goes on
SaleDeductionWarning(error) == error = "ValueError"

\* the handler from its client_id check on: `existing` is what the check found
SalesCreateChecked(req, fault, existing) ==
    IF existing # 0
    THEN /\ resp' = [op |-> "create_sale", status |-> 201, created |-> FALSE,
                     sms |-> "none", request |-> req, fault |-> fault,
                     rec |-> sales[existing]]
         /\ UNCHANGED <<stockLog, tables, interval, stockItems>>
    ELSE LET sale == [id |-> Len(sales) + 1, client_id |-> req.client_id,
                      customer |-> req.customer, package |-> SalePackage.id,
                      quantity |-> req.quantity,
                      payment_mode |-> req.payment_mode, cost |-> req.cost,
                      sold_at |-> Now]
             error == DeductionError(RequiredForSale)
             escaped == error # "none" /\ ~SaleDeductionWarning(error)
             visible == StagesVisible("create_sale", fault, escaped)
         IN  /\ sales' = IF visible >= 1 THEN Append(sales, sale) ELSE sales
             /\ stockLog' = IF visible >= 2 /\ error = "none"
                             THEN stockLog \o deduct_stock_for_sale(sale)
                             ELSE stockLog
             /\ resp' = IF fault = "none" /\ ~escaped
                         THEN [op |-> "create_sale", status |-> 201,
                               created |-> TRUE, sms |-> "none", request |-> req,
                               fault |-> fault, rec |-> sale]
                         ELSE [op |-> "create_sale", status |-> 500,
                               created |-> FALSE, sms |-> "none", request |-> req,
                               fault |-> fault, rec |-> [id |-> 0]]
             /\ UNCHANGED <<refills, credits, expenses, meterReadings, customers,
                            interval, stockItems>>

\* create with an unexpected failure striking at `fault`
SalesCreateFault(req, fault) ==
    /\ SalesCreateChecked(req, fault, SaleExisting(req))
    /\ UNCHANGED inflight

SalesCreate(req) == SalesCreateFault(req, "none")

(***************************************************************************)
(* RefillSerializer.create                                                 *)
(* Amounts are whole numbers here: float() of a difference of two-decimal  *)
(* amounts and Decimal(str()) of that float give the amount back.          *)
(***************************************************************************)
\* Refills.objects.filter(customer=customer, package=package)
\*        .aggregate(total=Sum('quantity'))['total'] or 0
TotalQuantityBefore(table, customer, package) ==
    LET hits == SelectIdx([k \in 1..Len(table) |->
                              /\ table[k].customer = customer
                              /\ table[k].package = package], 1)
    IN  SumSeq([k \in 1..Len(hits) |-> table[hits[k]].quantity])

\* the thresholds counted within the refill alone, the stored total left out
OfflineFreeQuantityThisRefillOnly(total_before, quantity, free_refill_interval) ==
    Min(quantity \div free_refill_interval, quantity)

\* every threshold reached so far counted, not only the new ones
OfflineFreeQuantityAllThresholds(total_before, quantity, free_refill_interval) ==
    Min((total_before + quantity) \div free_refill_interval, quantity)

\* number of new thresholds crossed, at most the quantity
OfflineFreeQuantity(total_before, quantity, free_refill_interval) ==
    Min(((total_before + quantity) \div free_refill_interval)
            - (total_before \div free_refill_interval), quantity)

\* the loyalty recalculation runs for an offline refill of a known customer
Recalculates(req) ==
    req.client_id # NoKey /\ req.customer # NoCustomer /\ interval > 0

\* the cost rewritten to the price of the paid units
StoredCostRecalculated(req, paid_quantity) ==
    IF Recalculates(req) THEN RefillPackage.price * paid_quantity ELSE req.cost

\* validated_data['cost'] is left as the caller sent it
StoredCost(req, paid_quantity) == req.cost

\* validated_data['is_free'] of the recalculation
IsFree(free_quantity, paid_quantity) == free_quantity > 0 /\ paid_quantity = 0

\* every refill with a free unit flagged partially free
IsPartiallyFreeAnyFree(free_quantity, paid_quantity) == free_quantity > 0

\* validated_data['is_partially_free'] of the recalculation
IsPartiallyFree(free_quantity, paid_quantity) ==
    free_quantity > 0 /\ paid_quantity > 0

\* the fields of the refill row that super().create(validated_data) writes
RefillRow(req) ==
    LET free_quantity ==
            OfflineFreeQuantity(
                TotalQuantityBefore(refills, req.customer, req.package),
                req.quantity, interval)
        paid_quantity == req.quantity - free_quantity
        base == [id |-> Len(refills) + 1, client_id |-> req.client_id,
                 customer |-> req.customer, package |-> req.package,
                 quantity |-> req.quantity, payment_mode |-> req.payment_mode,
                 cost |-> StoredCost(req, paid_quantity),
                 created_at |-> IF req.created_at = 0 THEN Now ELSE req.created_at,
                 is_free |-> req.is_free,
                 is_partially_free |-> req.is_partially_free,
                 free_quantity |-> req.free_quantity,
                 paid_quantity |-> req.paid_quantity,
                 loyalty_refill_count |-> req.loyalty_refill_count]
    IN  IF Recalculates(req)
        THEN [base EXCEPT !.free_quantity = free_quantity,
                          !.paid_quantity = paid_quantity,
                          !.loyalty_refill_count = paid_quantity,
                          !.is_free = IsFree(free_quantity, paid_quantity),
                          !.is_partially_free =
                                IsPartiallyFree(free_quantity, paid_quantity)]
        ELSE base

\* the correct cost taken from the whole quantity instead of the paid part
OfflineCreditAmountFullPrice(req) ==
    LET correct_cost == RefillPackage.price * req.quantity
    IN  IF Recalculates(req) /\ req.cost > correct_cost
        THEN req.cost - correct_cost
        ELSE 0

\* offline_credit_amount: what the customer paid above the correct cost
OfflineCreditAmount(req) ==
    LET correct_cost == RefillPackage.price * RefillRow(req).paid_quantity
    IN  IF Recalculates(req) /\ req.cost > correct_cost
        THEN req.cost - correct_cost
        ELSE 0

CreditRow(n, client_id, customer, money_paid, payment_mode, agent_name) ==
    [id |-> n, client_id |-> client_id, customer |-> customer,
     money_paid |-> money_paid, payment_mode |-> payment_mode,
     agent_name |-> agent_name, payment_date |-> Now]

\* the overpayment posted with the sign of a consumption
OverpaymentPostingAsDebit(req) ==
    IF OfflineCreditAmount(req) > 0 /\ req.customer # NoCustomer
    THEN << CreditRow(Len(credits) + 1, NoKey, req.customer,
                      -OfflineCreditAmount(req), "CASH", "OfflineSync") >>
    ELSE << >>

\* the 'OfflineSync' overpayment entry, if any
OverpaymentPosting(req) ==
    IF OfflineCreditAmount(req) > 0 /\ req.customer # NoCustomer
    THEN << CreditRow(Len(credits) + 1, NoKey, req.customer,
                      OfflineCreditAmount(req), "CASH", "OfflineSync") >>
    ELSE << >>

\* the entry posted for any non-zero credit_applied, whatever its sign
CreditAppliedPostingAnySign(req, n) ==
    IF req.credit_applied # 0 /\ req.customer # NoCustomer
    THEN << CreditRow(n, NoKey, req.customer, -req.credit_applied,
                      "CASH", "CreditUsed") >>
    ELSE << >>

\* the 'CreditUsed' entry for credit_applied, if any (a request without
\* credit_applied reads as 0: initial_data.get('credit_applied', 0))
CreditAppliedPosting(req, n) ==
    IF req.credit_applied > 0 /\ req.customer # NoCustomer
    THEN << CreditRow(n, NoKey, req.customer, -req.credit_applied,
                      "CASH", "CreditUsed") >>
    ELSE << >>

\* sum of loyalty_refill_count over the customer's non-free refills created
\* after their most recent is_free refill (all non-free ones if there is none)
RefillsSinceFree(table, customer) ==
    LET free == SelectIdx([k \in 1..Len(table) |->
                              /\ table[k].customer = customer
                              /\ table[k].is_free], 1)
        last == IF free = <<>> THEN 0
                ELSE CHOOSE t \in {table[free[k]].created_at : k \in 1..Len(free)} :
                        \A k \in 1..Len(free) : table[free[k]].created_at <= t
        window == SelectIdx([k \in 1..Len(table) |->
                                /\ table[k].customer = customer
                                /\ ~table[k].is_free
                                /\ (free # <<>> => table[k].created_at > last)], 1)
    IN  SumSeq([k \in 1..Len(window) |-> table[window[k]].loyalty_refill_count])

\* the notification sent for offline-synced refills too
RefillSmsAlsoOffline(req, refill, table) ==
    IF req.customer = NoCustomer THEN "none"
    ELSE IF refill.free_quantity > 0 THEN "thank_you"
    ELSE IF interval > 0
            /\ interval - (RefillsSinceFree(table, req.customer) % interval) = 1
         THEN "nearly_free"
    ELSE "none"

\* which SMS the handler sends after writing `refill`
RefillSms(req, refill, table) ==
    IF req.customer = NoCustomer \/ req.client_id # NoKey THEN "none"
    ELSE IF refill.free_quantity > 0 THEN "thank_you"
    ELSE IF interval > 0
            /\ interval - (RefillsSinceFree(table, req.customer) % interval) = 1
         THEN "nearly_free"
    ELSE "none"

\* create_refill without its client_id check
RefillExistingNever(req) == 0

\* `existing`: the index of the row the handler returns instead of creating
\* one, 0 when it goes on to create
RefillExisting(req) ==
    IF ShortCircuits(refills, req.client_id) THEN FilterFirst(refills, req.client_id) ELSE 0

\* the deduction error left to propagate
RefillDeductionWarningNone(error) == FALSE

\* except ValueError: the error is printed and the refill goes on
RefillDeductionWarning(error) == error = "ValueError"

\* the handler from its client_id check on: `existing` is what the check found
RefillCreateChecked(req, fault, existing) ==
    IF existing # 0
    THEN /\ resp' = [op |-> "create_refill", status |-> 201, created |-> FALSE,
                     sms |-> "none", request |-> req, fault |-> fault,
                     rec |-> refills[existing]]
         /\ UNCHANGED <<stockLog, tables, interval, stockItems>>
    ELSE LET refill == RefillRow(req)
             over == OverpaymentPosting(req)
             used == CreditAppliedPosting(req, Len(credits) + Len(over) + 1)
             error == DeductionError(RequiredForRefill)
             escaped == error # "none" /\ ~RefillDeductionWarning(error)
             visible == StagesVisible("create_refill", fault, escaped)
         IN  /\ refills' = IF visible >= 1 THEN Append(refills, refill) ELSE refills
             /\ stockLog' = IF visible >= 2 /\ error = "none"
                             THEN stockLog \o deduct_caps_and_labels_for_refill(refill)
                             ELSE stockLog
             /\ credits' = IF visible >= 4 THEN credits \o over \o used
                            ELSE IF visible >= 3 THEN credits \o over
                            ELSE credits
             /\ resp' = IF fault = "none" /\ ~escaped
                         THEN [op |-> "create_refill", status |-> 201,
                               created |-> TRUE,
                               sms |-> RefillSms(req, refill, Append(refills, refill)),
                               request |-> req, fault |-> fault, rec |-> refill]
                         ELSE [op |-> "create_refill", status |-> 500,
                               created |-> FALSE, sms |-> "none", request |-> req,
                               fault |-> fault, rec |-> [id |-> 0]]
             /\ UNCHANGED <<sales, expenses, meterReadings, customers, interval,
                            stockItems>>

\* create with an unexpected failure striking at `fault`
RefillCreateFault(req, fault) ==
    /\ RefillCreateChecked(req, fault, RefillExisting(req))
    /\ UNCHANGED inflight

RefillCreate(req) == RefillCreateFault(req, "none")

(***************************************************************************)
(* CreditsSerializer.create                                                *)
(***************************************************************************)
\* `existing`: the index of the row the handler returns instead of creating
\* one, 0 when it goes on to create
CreditExisting(req) ==
    IF ShortCircuits(credits, req.client_id) THEN FilterFirst(credits, req.client_id) ELSE 0

\* the handler from its client_id check on: `existing` is what the check found
CreditsCreateChecked(req, existing) ==
    IF existing # 0
    THEN /\ resp' = [op |-> "create_credit_payment", status |-> 201,
                     created |-> FALSE, sms |-> "none", request |-> req,
                     rec |-> credits[existing]]
         /\ UNCHANGED <<stockLog, tables, interval, stockItems>>
    ELSE LET row == CreditRow(Len(credits) + 1, req.client_id, req.customer,
                              req.money_paid, req.payment_mode, req.agent_name)
         IN  /\ credits' = Append(credits, row)
             /\ resp' = [op |-> "create_credit_payment", status |-> 201,
                         created |-> TRUE, sms |-> "none", request |-> req,
                         rec |-> row]
             /\ UNCHANGED <<stockLog, sales, refills, expenses, meterReadings,
                            customers, interval, stockItems>>

CreditsCreate(req) ==
    /\ CreditsCreateChecked(req, CreditExisting(req))
    /\ UNCHANGED inflight

(***************************************************************************)
(* ExpensesSerializer.create, MeterReadingSerializer.create and            *)
(* CustomerSerializer.create                                               *)
(***************************************************************************)
\* the image field after the base64 handling: the file given, else the
\* decoded upload, else nothing (a failed decode is skipped)
DecodedImage(file, base64_data) ==
    IF base64_data # "" /\ file = ""
    THEN IF base64_data = "bad" THEN "" ELSE "decoded"
    ELSE file

\* `existing`: the index of the row the handler returns instead of creating
\* one, 0 when it goes on to create
ExpenseExisting(req) ==
    IF ShortCircuits(expenses, req.client_id) THEN FilterFirst(expenses, req.client_id) ELSE 0

ExpensesCreate(req) ==
    IF ExpenseExisting(req) # 0
    THEN /\ resp' = [op |-> "create_expense", status |-> 201, created |-> FALSE,
                     sms |-> "none", request |-> req,
                     rec |-> expenses[ExpenseExisting(req)]]
         /\ UNCHANGED <<stockLog, tables, interval, stockItems, inflight>>
    ELSE LET row == [id |-> Len(expenses) + 1, client_id |-> req.client_id,
                     cost |-> req.cost,
                     receipt |-> DecodedImage(req.receipt, req.receipt_base64)]
         IN  /\ expenses' = Append(expenses, row)
             /\ resp' = [op |-> "create_expense", status |-> 201, created |-> TRUE,
                         sms |-> "none", request |-> req, rec |-> row]
             /\ UNCHANGED <<stockLog, sales, refills, credits, meterReadings,
                            customers, interval, stockItems, inflight>>

\* `existing`: the index of the row the handler returns instead of creating
\* one, 0 when it goes on to create
MeterReadingExisting(req) ==
    IF ShortCircuits(meterReadings, req.client_id) THEN FilterFirst(meterReadings, req.client_id) ELSE 0

MeterReadingCreate(req) ==
    IF MeterReadingExisting(req) # 0
    THEN /\ resp' = [op |-> "create_meter_reading", status |-> 201,
                     created |-> FALSE, sms |-> "none", request |-> req,
                     rec |-> meterReadings[MeterReadingExisting(req)]]
         /\ UNCHANGED <<stockLog, tables, interval, stockItems, inflight>>
    ELSE LET row == [id |-> Len(meterReadings) + 1, client_id |-> req.client_id,
                     value |-> req.value,
                     meter_photo |-> DecodedImage(req.meter_photo,
                                                  req.meter_photo_base64)]
         IN  /\ meterReadings' = Append(meterReadings, row)
             /\ resp' = [op |-> "create_meter_reading", status |-> 201,
                         created |-> TRUE, sms |-> "none", request |-> req,
                         rec |-> row]
             /\ UNCHANGED <<stockLog, sales, refills, credits, expenses,
                            customers, interval, stockItems, inflight>>

\* `existing`: the index of the row the handler returns instead of creating
\* one, 0 when it goes on to create
CustomerExisting(req) ==
    IF ShortCircuits(customers, req.client_id) THEN FilterFirst(customers, req.client_id) ELSE 0

CustomerCreate(req) ==
    IF CustomerExisting(req) # 0
    THEN /\ resp' = [op |-> "create_customer", status |-> 201, created |-> FALSE,
                     sms |-> "none", request |-> req,
                     rec |-> customers[CustomerExisting(req)]]
         /\ UNCHANGED <<stockLog, tables, interval, stockItems, inflight>>
    ELSE LET row == [id |-> Len(customers) + 1, client_id |-> req.client_id,
                     names |-> req.names,
                     date_registered |-> IF req.date_registered = 0 THEN Now
                                         ELSE req.date_registered]
         IN  /\ customers' = Append(customers, row)
             /\ resp' = [op |-> "create_customer", status |-> 201, created |-> TRUE,
                         sms |-> "none", request |-> req, rec |-> row]
             /\ UNCHANGED <<stockLog, sales, refills, credits, expenses,
                            meterReadings, interval, stockItems, inflight>>

(***************************************************************************)
(* Credit figures: CustomerInsightSerializer.get_credit_info and           *)
(* CustomerViewSet.export_for_offline                                      *)
(***************************************************************************)
RECURSIVE CostOfCreditAnyMode(_, _, _)
\* the loop without its payment_mode='CREDIT' filter
CostOfCreditAnyMode(table, customer, n) ==
    IF n > Len(table) THEN 0
    ELSE (IF table[n].customer = customer THEN table[n].cost ELSE 0)
         + CostOfCreditAnyMode(table, customer, n + 1)

RECURSIVE CostOfCredit(_, _, _)
\* the loop `for row in rows.filter(payment_mode='CREDIT'): total += row.cost`
\* over the customer's rows, from row n on
CostOfCredit(table, customer, n) ==
    IF n > Len(table) THEN 0
    ELSE (IF table[n].customer = customer /\ table[n].payment_mode = "CREDIT"
          THEN table[n].cost ELSE 0) + CostOfCredit(table, customer, n + 1)

RECURSIVE MoneyPaid(_, _, _)
\* the loop `for payment in customer.credit_payments.all(): total += money_paid`
MoneyPaid(table, customer, n) ==
    IF n > Len(table) THEN 0
    ELSE (IF table[n].customer = customer THEN table[n].money_paid ELSE 0)
         + MoneyPaid(table, customer, n + 1)

\* round(n / d) for d > 0: to the nearest integer, a tie to the even one
RoundHalfEven(n, d) ==
    LET q == n \div d
        r == n % d
    IN  IF 2 * r < d THEN q
        ELSE IF 2 * r > d THEN q + 1
        ELSE IF q % 2 = 0 THEN q ELSE q + 1

get_credit_info(customer, salesT, refillsT, creditsT) ==
    LET total_credit == CostOfCredit(refillsT, customer, 1)
                        + CostOfCredit(salesT, customer, 1)
        total_repaid == MoneyPaid(creditsT, customer, 1)
    IN  [total_credit |-> total_credit,
         outstanding |-> Max(0, total_credit - total_repaid),
         repayment_rate |->
            IF total_credit > 0
            THEN Min(100, RoundHalfEven(total_repaid * 100, total_credit))
            ELSE 100]

\* the balance with the sign convention reversed
credit_balanceOwedMinusRepaid(customer, salesT, refillsT, creditsT) ==
    LET total_credit_owed == CostOfCredit(refillsT, customer, 1)
                             + CostOfCredit(salesT, customer, 1)
        total_repaid == MoneyPaid(creditsT, customer, 1)
    IN  total_credit_owed - total_repaid

\* export_for_offline's credit_balance
credit_balance(customer, salesT, refillsT, creditsT) ==
    LET total_credit_owed == CostOfCredit(refillsT, customer, 1)
                             + CostOfCredit(salesT, customer, 1)
        total_repaid == MoneyPaid(creditsT, customer, 1)
    IN  total_repaid - total_credit_owed

(***************************************************************************)
(* The same figures for amounts with cents.  An amount is held in          *)
(* hundredths (330 is 3.30).  The insight path adds Decimals, which is     *)
(* exact; export_for_offline turns every amount into a float and adds      *)
(* floats.  A float (IEEE 754 binary64) near n/100 is held exactly as the  *)
(* pair n, d that stands for (n * 2^60 + d) / (100 * 2^60): d is the       *)
(* distance of the float from n/100 in units of 2^-60 / 100.  Every float  *)
(* met here is a whole number of such units, and d stays small.            *)
(***************************************************************************)
FloatZero == [n |-> 0, d |-> 0]

FloatNeg(x) == [n |-> -x.n, d |-> -x.d]

FloatIsNegative(x) == x.n < 0 \/ (x.n = 0 /\ x.d < 0)

RECURSIVE Pow2Mod100(_)
\* 2^k modulo 100
Pow2Mod100(k) == IF k = 0 THEN 1 ELSE (2 * Pow2Mod100(k - 1)) % 100

\* x >= 2^j, for x with x.n >= 1
FloatAtLeastPow2(x, j) ==
    IF j >= 0
    THEN x.n > 100 * 2^j \/ (x.n = 100 * 2^j /\ x.d >= 0)
    ELSE x.n * 2^(-j) > 100 \/ (x.n * 2^(-j) = 100 /\ x.d >= 0)

\* the binary exponent of x: 2^j <= x < 2^(j+1), for 0.01 <= x < 16
FloatExponent(x) ==
    CHOOSE j \in -8..3 : FloatAtLeastPow2(x, j) /\ ~FloatAtLeastPow2(x, j + 1)

\* the float nearest to the exact value x >= 0.01, a tie going to the even
\* mantissa: floats of exponent j are the multiples of 2^(j-52), that is of
\* G units; r is what x has above the multiple below it
FloatRoundPositive(x) ==
    LET j == FloatExponent(x)
        K == 2^(j + 8)
        G == 100 * K
        r == (K * (((x.n % 100) * Pow2Mod100(52 - j)) % 100) + x.d) % G
        r2 == (2 * K * (((x.n % 100) * Pow2Mod100(51 - j)) % 100) + x.d) % (2 * G)
        odd == r2 - r = G
        down == [n |-> x.n, d |-> x.d - r]
        up == [n |-> x.n, d |-> x.d + (G - r)]
    IN  IF 2 * r < G THEN down
        ELSE IF 2 * r > G THEN up
        ELSE IF odd THEN up ELSE down

\* rounding of an exact value; a value with n = 0 is the difference of two
\* floats within a factor 2 of each other, which is a float already
FloatRound(x) ==
    IF x.n = 0 THEN x
    ELSE IF x.n > 0 THEN FloatRoundPositive(x)
    ELSE FloatNeg(FloatRoundPositive(FloatNeg(x)))

\* float(amount) of a Decimal amount given in hundredths
float(amount) == FloatRound([n |-> amount, d |-> 0])

\* a + b on floats
FloatAdd(a, b) == FloatRound([n |-> a.n + b.n, d |-> a.d + b.d])

RECURSIVE FloatCostOfCredit(_, _, _, _)
\* for row in rows.filter(payment_mode='CREDIT'):
\*     total_credit_owed += float(row.cost or 0)
\* over the customer's rows from row n on, `total` being the sum so far
FloatCostOfCredit(table, customer, n, total) ==
    IF n > Len(table) THEN total
    ELSE FloatCostOfCredit(table, customer, n + 1,
            IF table[n].customer = customer /\ table[n].payment_mode = "CREDIT"
            THEN FloatAdd(total, float(table[n].cost))
            ELSE total)

RECURSIVE FloatMoneyPaid(_, _, _, _)
\* for payment in customer.credit_payments.all():
\*     total_repaid += float(payment.money_paid or 0)
FloatMoneyPaid(table, customer, n, total) ==
    IF n > Len(table) THEN total
    ELSE FloatMoneyPaid(table, customer, n + 1,
            IF table[n].customer = customer
            THEN FloatAdd(total, float(table[n].money_paid))
            ELSE total)

\* export_for_offline's credit_balance as the float it is
export_for_offline_credit_balance(customer, salesT, refillsT, creditsT) ==
    LET total_credit_owed ==
            FloatCostOfCredit(salesT, customer, 1,
                FloatCostOfCredit(refillsT, customer, 1, FloatZero))
        total_repaid == FloatMoneyPaid(creditsT, customer, 1, FloatZero)
    IN  FloatAdd(total_repaid, FloatNeg(total_credit_owed))

(***************************************************************************)
(* Loyalty figures: RefillSerializer.get_is_next_refill_free and           *)
(* get_free_refills_available, the two get_loyalty methods and the loyalty *)
(* block of export_for_offline.  A division or modulo by zero raises;      *)
(* // and % follow the sign rules of Python for a negative divisor.        *)
(***************************************************************************)
PyFloorDiv(a, b) == IF b > 0 THEN a \div b ELSE (-a) \div (-b)
PyMod(a, b) == a - b * PyFloorDiv(a, b)

get_is_next_refill_free(obj) ==
    IF obj.customer = NoCustomer THEN FALSE
    ELSE IF interval <= 0 THEN FALSE
    ELSE RefillsSinceFree(refills, obj.customer) >= interval

get_free_refills_available(obj) ==
    IF obj.customer = NoCustomer THEN 0
    ELSE IF interval <= 0 THEN 0
    ELSE PyFloorDiv(RefillsSinceFree(refills, obj.customer), interval)

\* sum(getattr(refill, 'quantity', 1) or 1 for refill in refills)
RefillQuantities(table, customer) ==
    LET hits == SelectIdx([k \in 1..Len(table) |-> table[k].customer = customer], 1)
    IN  SumSeq([k \in 1..Len(hits) |->
                  IF table[hits[k]].quantity = 0 THEN 1 ELSE table[hits[k]].quantity])

\* refills.filter(is_free=True).count()
FreeRefills(table, customer) ==
    Len(SelectIdx([k \in 1..Len(table) |->
                      table[k].customer = customer /\ table[k].is_free], 1))

\* current_points taken as the paid quantities, not reduced modulo the
\* interval
LoyaltyFiguresPointsUnwrapped(refill_quantities, free_refills, free_refill_interval) ==
    IF free_refill_interval = 0 THEN [error |-> "ZeroDivisionError"]
    ELSE LET calculated_free_refills ==
                 PyFloorDiv(refill_quantities, free_refill_interval)
             free_refills_redeemed == Max(free_refills, calculated_free_refills)
             current_points == refill_quantities - free_refills_redeemed
         IN  [current_points |-> current_points,
              refills_until_free |->
                  IF current_points > 0 THEN free_refill_interval - current_points
                  ELSE free_refill_interval,
              free_refills_redeemed |-> free_refills_redeemed]

\* calculated_free_refills, free_refills_redeemed, paid_quantities,
\* current_points and refills_until_free, as all three places compute them
LoyaltyFigures(refill_quantities, free_refills, free_refill_interval) ==
    IF free_refill_interval = 0 THEN [error |-> "ZeroDivisionError"]
    ELSE LET calculated_free_refills ==
                 PyFloorDiv(refill_quantities, free_refill_interval)
             free_refills_redeemed == Max(free_refills, calculated_free_refills)
             paid_quantities == refill_quantities - free_refills_redeemed
             current_points == PyMod(paid_quantities, free_refill_interval)
         IN  [current_points |-> current_points,
              refills_until_free |->
                  IF current_points > 0 THEN free_refill_interval - current_points
                  ELSE free_refill_interval,
              free_refills_redeemed |-> free_refills_redeemed]

\* CustomerInsightSerializer.get_loyalty
get_loyalty(customer) ==
    LoyaltyFigures(RefillQuantities(refills, customer),
                   FreeRefills(refills, customer), interval)

\* CustomerSerializer.get_loyalty
CustomerSerializer_get_loyalty(customer) ==
    LoyaltyFigures(RefillQuantities(refills, customer),
                   FreeRefills(refills, customer), interval)

\* the 'loyalty' entry export_for_offline builds for a customer
export_for_offline_loyalty(customer) ==
    LoyaltyFigures(RefillQuantities(refills, customer),
                   FreeRefills(refills, customer), interval)

\* a read: the tables stay as they are, the figures are returned (or the
\* request fails with the exception)
Read(op, request, rec) ==
    /\ resp' = [op |-> op,
                status |-> IF "error" \in DOMAIN rec THEN 500 ELSE 200,
                created |-> FALSE, sms |-> "none", request |-> request,
                rec |-> rec]
    /\ UNCHANGED <<stockLog, tables, interval, stockItems, inflight>>

(***************************************************************************)
(* Specification of the stock ledger with sale deductions.                 *)
(***************************************************************************)
NoResp == [op |-> "none", status |-> 0, created |-> FALSE, sms |-> "none",
           request |-> [client_id |-> NoKey], rec |-> [id |-> 0]]

Init ==
    /\ stockLog = <<>>
    /\ sales = <<>>
    /\ refills = <<>>
    /\ credits = <<>>
    /\ expenses = <<>>
    /\ meterReadings = <<>>
    /\ customers = <<>>
    /\ interval \in Intervals
    /\ stockItems = Items
    /\ inflight = Idle
    /\ resp = NoResp

AdjustmentTypes == {"add", "subtract", "set"}
AdjustQuantities == 0..2

PaidSplit(q) ==
    [is_free |-> FALSE, is_partially_free |-> FALSE, free_quantity |-> 0,
     paid_quantity |-> q, loyalty_refill_count |-> q]

\* a refill request: the fields the caller chooses, and the split it sends
RefillReq(client_id, customer, quantity, payment_mode, cost, credit_applied, split) ==
    [client_id |-> client_id, customer |-> customer,
     package |-> RefillPackage.id, quantity |-> quantity,
     payment_mode |-> payment_mode, cost |-> cost, created_at |-> 0,
     credit_applied |-> credit_applied,
     is_free |-> split.is_free, is_partially_free |-> split.is_partially_free,
     free_quantity |-> split.free_quantity, paid_quantity |-> split.paid_quantity,
     loyalty_refill_count |-> split.loyalty_refill_count]

LedgerSaleReqs ==
    [client_id : {NoKey, 1}, customer : {NoCustomer}, quantity : {1, 2},
     payment_mode : {"CASH"}, cost : {SalePackage.price}]

LedgerRefillReqs ==
    {RefillReq(NoKey, NoCustomer, q, "CASH", RefillPackage.price * q, 0, PaidSplit(q)) :
        q \in {1, 2}}

Adjust ==
    \E item \in Items \cup {"unknown"}, adjustment_type \in AdjustmentTypes,
       quantity \in AdjustQuantities :
        /\ Len(stockLog) < MaxLog
        /\ InventoryAdjustmentPost(item, adjustment_type, quantity)

LedgerSale ==
    \E req \in LedgerSaleReqs :
        /\ Len(stockLog) + 2 <= MaxLog
        /\ SalesCreate(req)

LedgerRefill ==
    \E req \in LedgerRefillReqs :
        /\ Len(stockLog) + 2 <= MaxLog
        /\ RefillCreate(req)

Next == Adjust \/ LedgerSale \/ LedgerRefill

Spec == Init /\ [][Next]_vars

(***************************************************************************)
(* Specification of the idempotency gate: the six create entry points.     *)
(***************************************************************************)
TotalRows ==
    Len(sales) + Len(refills) + Len(credits) + Len(expenses)
    + Len(meterReadings) + Len(customers)

GateKeys == {NoKey} \cup Keys

GateSaleReqs ==
    [client_id : GateKeys, customer : Customers, quantity : {1, 2},
     payment_mode : {"CASH"}, cost : {SalePackage.price}]

GateRefillReqs ==
    {RefillReq(k, 1, q, "CASH", RefillPackage.price * q, 0, PaidSplit(q)) :
        k \in GateKeys, q \in {1, 2}}

GateCreditReqs ==
    [client_id : GateKeys, customer : Customers, money_paid : {1, 2},
     payment_mode : {"CASH"}, agent_name : {"agent"}]

GateExpenseReqs ==
    [client_id : GateKeys, cost : {5}, receipt : {""},
     receipt_base64 : {"", "data:image/jpeg", "bad"}]

GateMeterReqs ==
    [client_id : GateKeys, value : {7}, meter_photo : {""},
     meter_photo_base64 : {"", "data:image/jpeg", "bad"}]

GateCustomerReqs ==
    [client_id : GateKeys, names : {"Ann", "Ben"}, date_registered : {0}]

InitGate ==
    /\ stockLog = <<>>
    /\ sales = <<>>
    /\ refills = <<>>
    /\ credits = <<>>
    /\ expenses = <<>>
    /\ meterReadings = <<>>
    /\ customers = <<>>
    /\ interval = 2
    /\ stockItems = Items
    /\ inflight = Idle
    /\ resp = NoResp

\* a create call is taken while the tables have room for the row it may write
Room(table, client_id) == ShortCircuits(table, client_id) \/ TotalRows < MaxRows

GateSale == \E req \in GateSaleReqs : Room(sales, req.client_id) /\ SalesCreate(req)

GateRefill == \E req \in GateRefillReqs : Room(refills, req.client_id) /\ RefillCreate(req)

GateCredit == \E req \in GateCreditReqs : Room(credits, req.client_id) /\ CreditsCreate(req)

GateExpense ==
    \E req \in GateExpenseReqs : Room(expenses, req.client_id) /\ ExpensesCreate(req)

GateMeterReading ==
    \E req \in GateMeterReqs :
        Room(meterReadings, req.client_id) /\ MeterReadingCreate(req)

GateCustomer ==
    \E req \in GateCustomerReqs : Room(customers, req.client_id) /\ CustomerCreate(req)

NextGate ==
    GateSale \/ GateRefill \/ GateCredit \/ GateExpense \/ GateMeterReading
    \/ GateCustomer

SpecGate == InitGate /\ [][NextGate]_vars

(***************************************************************************)
(* Specification of refill creation: online and offline-synced refills of  *)
(* a customer, with the credit postings they make.                         *)
(***************************************************************************)
\* a request whose split does not add up to its quantity
BadSplit(q) ==
    [is_free |-> FALSE, is_partially_free |-> FALSE, free_quantity |-> q,
     paid_quantity |-> q, loyalty_refill_count |-> 0]

RefillReqs ==
    {RefillReq(k, c, q, "CASH", unit * q, a, PaidSplit(q)) :
        k \in {NoKey, 1}, c \in {NoCustomer, 1}, q \in {1, 2},
        unit \in {0, RefillPackage.price}, a \in {0, 1}}
    \cup {RefillReq(NoKey, 1, 1, "CASH", RefillPackage.price, 0, BadSplit(1))}

SyncRefill ==
    \E req \in RefillReqs :
        /\ ShortCircuits(refills, req.client_id) \/ Len(refills) < MaxRows
        /\ RefillCreate(req)

NextRefill == SyncRefill

SpecRefill == Init /\ [][NextRefill]_vars

(***************************************************************************)
(* Specification of the credit ledger: credit-mode sales and refills and   *)
(* repayments of two customers.                                            *)
(***************************************************************************)
CreditCustomers == {1, 2}
Amounts == {200, 500}

CreditSaleReqs ==
    [client_id : {NoKey}, customer : CreditCustomers, quantity : {1},
     payment_mode : {"CASH", "CREDIT"}, cost : {500}]

CreditRefillReqs ==
    {RefillReq(NoKey, c, 1, m, 200, a, PaidSplit(1)) :
        c \in CreditCustomers, m \in {"CASH", "CREDIT"}, a \in {0, 200}}

CreditPaymentReqs ==
    [client_id : {NoKey, 1}, customer : CreditCustomers, money_paid : Amounts,
     payment_mode : {"CASH"}, agent_name : {"agent"}]

CreditSale == \E req \in CreditSaleReqs : TotalRows <= MaxRows /\ SalesCreate(req)

CreditRefill == \E req \in CreditRefillReqs : TotalRows <= MaxRows /\ RefillCreate(req)

CreditPayment ==
    \E req \in CreditPaymentReqs :
        /\ ShortCircuits(credits, req.client_id) \/ TotalRows <= MaxRows
        /\ CreditsCreate(req)

NextCredit == CreditSale \/ CreditRefill \/ CreditPayment

SpecCredit == InitGate /\ [][NextCredit]_vars

(***************************************************************************)
(* Specification of credit applied to refills and overpayment credit, for  *)
(* every payment mode.                                                     *)
(***************************************************************************)
PaymentModes == {"CASH", "MPESA", "CREDIT"}
CreditApplied == {-1, 0, 1}

ApplyRefillReqs ==
    {RefillReq(k, c, 1, m, RefillPackage.price, a, PaidSplit(1)) :
        k \in {NoKey, 1}, c \in {NoCustomer, 1}, m \in PaymentModes,
        a \in CreditApplied}

ApplyRefill ==
    \E req \in ApplyRefillReqs :
        /\ ShortCircuits(refills, req.client_id) \/ Len(refills) < MaxRows
        /\ RefillCreate(req)

NextApply == ApplyRefill

SpecApply == InitGate /\ [][NextApply]_vars

(***************************************************************************)
(* Specification of the free-refill threshold: a customer's online refills *)
(* followed by one offline-synced refill.                                  *)
(***************************************************************************)
ThresholdIntervals == {3, 10}

InitThreshold ==
    /\ stockLog = <<>>
    /\ sales = <<>>
    /\ refills = <<>>
    /\ credits = <<>>
    /\ expenses = <<>>
    /\ meterReadings = <<>>
    /\ customers = <<>>
    /\ interval \in ThresholdIntervals
    /\ stockItems = Items
    /\ inflight = Idle
    /\ resp = NoResp

\* an online refill of the customer, paid in full
PriorRefill ==
    \E q \in {1, 2} :
        /\ Len(refills) < MaxPrior
        /\ ~ShortCircuits(refills, 1)
        /\ RefillCreate(RefillReq(NoKey, 1, q, "CASH", RefillPackage.price * q, 0,
                                  PaidSplit(q)))

\* the offline-synced refill of the customer (and its retries)
NewRefill ==
    \E q \in {1, 2, 3} :
        /\ Len(refills) <= MaxPrior
        /\ RefillCreate(RefillReq(1, 1, q, "CASH", RefillPackage.price * q, 0,
                                  PaidSplit(q)))

NextThreshold == PriorRefill \/ NewRefill

SpecThreshold == InitThreshold /\ [][NextThreshold]_vars

(***************************************************************************)
(* Specification of failures: sales and refills in shops with missing      *)
(* StockItem rows, with unexpected failures striking inside the handler.   *)
(***************************************************************************)
StockItemSets == {Items, {"bottle", "label"}, {"bottle", "cap"}, {"cap"}}
SaleFaults == {"none", "after_create", "after_deduct"}
RefillFaults == SaleFaults \cup {"after_overpayment"}

FaultSaleReqs ==
    [client_id : {NoKey, 1}, customer : Customers, quantity : {1},
     payment_mode : {"CASH"}, cost : {SalePackage.price}]

FaultRefillReqs ==
    {RefillReq(k, 1, 1, "CASH", RefillPackage.price, a, PaidSplit(1)) :
        k \in {NoKey, 1}, a \in {0, 1}}

InitFault ==
    /\ stockLog = <<>>
    /\ sales = <<>>
    /\ refills = <<>>
    /\ credits = <<>>
    /\ expenses = <<>>
    /\ meterReadings = <<>>
    /\ customers = <<>>
    /\ interval = 2
    /\ stockItems \in StockItemSets
    /\ inflight = Idle
    /\ resp = NoResp

FaultSale ==
    \E req \in FaultSaleReqs, fault \in SaleFaults :
        /\ IF ShortCircuits(sales, req.client_id) THEN fault = "none"
           ELSE Len(sales) + Len(refills) < MaxRows
        /\ SalesCreateFault(req, fault)

FaultRefill ==
    \E req \in FaultRefillReqs, fault \in RefillFaults :
        /\ IF ShortCircuits(refills, req.client_id) THEN fault = "none"
           ELSE Len(sales) + Len(refills) < MaxRows
        /\ RefillCreateFault(req, fault)

NextFault == FaultSale \/ FaultRefill

SpecFault == InitFault /\ [][NextFault]_vars

(***************************************************************************)
(* Specification of the loyalty figures: refills of a customer, paid, free *)
(* or split by the offline recalculation, and the reads of the figures.    *)
(***************************************************************************)
LoyaltyIntervals == {-1, 0, 2, 3}

\* the split of a refill the client redeems as free
FreeSplit(q) ==
    [is_free |-> TRUE, is_partially_free |-> FALSE, free_quantity |-> q,
     paid_quantity |-> 0, loyalty_refill_count |-> 0]

LoyaltyRefillReqs ==
    {RefillReq(k, 1, q, "CASH", RefillPackage.price * q, 0, PaidSplit(q)) :
        k \in {NoKey, 1}, q \in {1, 2}}
    \cup {RefillReq(NoKey, 1, q, "CASH", 0, 0, FreeSplit(q)) : q \in {1, 2}}

InitLoyalty ==
    /\ stockLog = <<>>
    /\ sales = <<>>
    /\ refills = <<>>
    /\ credits = <<>>
    /\ expenses = <<>>
    /\ meterReadings = <<>>
    /\ customers = <<>>
    /\ interval \in LoyaltyIntervals
    /\ stockItems = Items
    /\ inflight = Idle
    /\ resp = NoResp

LoyaltyRefill ==
    \E req \in LoyaltyRefillReqs :
        /\ ShortCircuits(refills, req.client_id) \/ Len(refills) < MaxRows
        /\ RefillCreate(req)

ReadLoyalty ==
    \E c \in Customers : Read("get_loyalty", [customer |-> c], get_loyalty(c))

ReadCustomer ==
    \E c \in Customers :
        Read("get_customer", [customer |-> c], CustomerSerializer_get_loyalty(c))

ReadExport ==
    \E c \in Customers :
        Read("export_for_offline", [customer |-> c], export_for_offline_loyalty(c))

ReadRefill ==
    \E n \in 1..Len(refills) :
        Read("get_refill", [id |-> n],
             [is_next_refill_free |-> get_is_next_refill_free(refills[n]),
              free_refills_available |-> get_free_refills_available(refills[n])])

NextLoyalty == LoyaltyRefill \/ ReadLoyalty \/ ReadCustomer \/ ReadExport \/ ReadRefill

SpecLoyalty == InitLoyalty /\ [][NextLoyalty]_vars

(***************************************************************************)
(* Specification of concurrent manual adjustments: each worker reads the   *)
(* stock level in one step and checks and appends in a later one.          *)
(***************************************************************************)
RaceItems == {"bottle"}
RaceAdjustmentTypes == {"add", "subtract"}
RaceQuantities == {1, 2}

\* the number of workers in the middle of a request
Busy == Cardinality({w \in Workers : inflight[w].pc # "idle"})

\* the level re-derived right before the check and the append
LevelCheckedFresh(w) == get_current_stock_level(inflight[w].item)

\* the level the check and the new entry are computed from: the one read
\* at the start, with no lock taken and no second read
LevelChecked(w) == inflight[w].current_quantity

BeginAdjust(w) ==
    \E item \in RaceItems, adjustment_type \in RaceAdjustmentTypes,
       quantity \in RaceQuantities :
        /\ inflight[w].pc = "idle"
        /\ Len(stockLog) + Busy < MaxLog
        /\ inflight' = [inflight EXCEPT ![w] =
                [pc |-> "adjust", item |-> item,
                 adjustment_type |-> adjustment_type, quantity |-> quantity,
                 current_quantity |-> get_current_stock_level(item)]]
        /\ UNCHANGED <<stockLog, tables, interval, stockItems, resp>>

FinishAdjust(w) ==
    /\ inflight[w].pc = "adjust"
    /\ InventoryAdjustmentApply(inflight[w].item, inflight[w].adjustment_type,
                                inflight[w].quantity, LevelChecked(w))
    /\ inflight' = [inflight EXCEPT ![w] = [pc |-> "idle"]]

NextAdjustRace == \E w \in Workers : BeginAdjust(w) \/ FinishAdjust(w)

SpecAdjustRace == InitGate /\ [][NextAdjustRace]_vars

(***************************************************************************)
(* Specification of concurrent creates: each worker runs the client_id     *)
(* check in one step and the rest of the handler in a later one.  No       *)
(* uniqueness of client_id is enforced by the tables.                      *)
(***************************************************************************)
RaceSaleReqs ==
    [client_id : {NoKey, 1}, customer : Customers, quantity : {1},
     payment_mode : {"CASH"}, cost : {SalePackage.price}]

RaceRefillReqs ==
    {RefillReq(k, 1, 1, "CASH", RefillPackage.price, a, PaidSplit(1)) :
        k \in {NoKey, 1}, a \in {0, 1}}

RaceCreditReqs ==
    [client_id : {NoKey, 1}, customer : Customers, money_paid : {1},
     payment_mode : {"CASH"}, agent_name : {"agent"}]

BeginCreate(w) ==
    /\ inflight[w].pc = "idle"
    /\ Len(sales) + Len(refills) + Len(credits) + Busy < MaxRows
    /\ \/ \E req \in RaceSaleReqs :
            inflight' = [inflight EXCEPT ![w] =
                [pc |-> "create_sale", req |-> req, existing |-> SaleExisting(req)]]
       \/ \E req \in RaceRefillReqs :
            inflight' = [inflight EXCEPT ![w] =
                [pc |-> "create_refill", req |-> req,
                 existing |-> RefillExisting(req)]]
       \/ \E req \in RaceCreditReqs :
            inflight' = [inflight EXCEPT ![w] =
                [pc |-> "create_credit_payment", req |-> req,
                 existing |-> CreditExisting(req)]]
    /\ UNCHANGED <<stockLog, tables, interval, stockItems, resp>>

\* whether the table refuses a second row with a client_id it already holds:
\* no uniqueness of the key is described for the records
InsertConflicts(table, client_id) == FALSE

\* the table a create handler checks and writes
TableFor(op) ==
    CASE op = "create_sale" -> sales
      [] op = "create_refill" -> refills
      [] op = "create_credit_payment" -> credits

FinishCreate(w) ==
    /\ inflight[w].pc # "idle"
    /\ IF /\ inflight[w].existing = 0
          /\ InsertConflicts(TableFor(inflight[w].pc), inflight[w].req.client_id)
       THEN /\ resp' = [op |-> inflight[w].pc, status |-> 500, created |-> FALSE,
                        sms |-> "none", request |-> inflight[w].req,
                        fault |-> "IntegrityError", rec |-> [id |-> 0]]
            /\ UNCHANGED <<stockLog, tables, interval, stockItems>>
       ELSE
       CASE inflight[w].pc = "create_sale" ->
                SalesCreateChecked(inflight[w].req, "none", inflight[w].existing)
         [] inflight[w].pc = "create_refill" ->
                RefillCreateChecked(inflight[w].req, "none", inflight[w].existing)
         [] inflight[w].pc = "create_credit_payment" ->
                CreditsCreateChecked(inflight[w].req, inflight[w].existing)
         [] OTHER -> FALSE
    /\ inflight' = [inflight EXCEPT ![w] = [pc |-> "idle"]]

NextCreateRace == \E w \in Workers : BeginCreate(w) \/ FinishCreate(w)

SpecCreateRace == InitGate /\ [][NextCreateRace]_vars

(***************************************************************************)
(* Specification of a synced batch: a customer's online refills of two     *)
(* packages, then offline-synced refills with distinct keys, in any order. *)
(***************************************************************************)
BatchIntervals == {1, 2, 3}
BatchKeys == {1, 2, 3}
OtherRefillPackage == [id |-> 3, price |-> 2, sale_type |-> "refill"]

InitBatch ==
    /\ stockLog = <<>>
    /\ sales = <<>>
    /\ refills = <<>>
    /\ credits = <<>>
    /\ expenses = <<>>
    /\ meterReadings = <<>>
    /\ customers = <<>>
    /\ interval \in BatchIntervals
    /\ stockItems = Items
    /\ inflight = Idle
    /\ resp = NoResp

\* the offline-synced rows of a table
SyncedRows(table) == {n \in 1..Len(table) : table[n].client_id # NoKey}

BatchOnlineReqs ==
    {RefillReq(NoKey, 1, q, "CASH", RefillPackage.price * q, 0, PaidSplit(q)) :
        q \in {1, 2}}
    \cup {[RefillReq(NoKey, 1, 1, "CASH", OtherRefillPackage.price, 0, PaidSplit(1))
              EXCEPT !.package = OtherRefillPackage.id]}

BatchSyncReqs ==
    {RefillReq(k, 1, q, "CASH", RefillPackage.price * q, 0, PaidSplit(q)) :
        k \in BatchKeys, q \in {1, 2, 3}}

\* an online refill of the customer, before the batch is synced
BatchOnline ==
    \E req \in BatchOnlineReqs :
        /\ SyncedRows(refills) = {}
        /\ Len(refills) < MaxRows
        /\ RefillCreate(req)

\* one refill of the batch is synced (or synced again)
BatchSync ==
    \E req \in BatchSyncReqs :
        /\ \/ ShortCircuits(refills, req.client_id)
           \/ Cardinality(SyncedRows(refills)) < MaxRows
        /\ RefillCreate(req)

NextBatch == BatchOnline \/ BatchSync

SpecBatch == InitBatch /\ [][NextBatch]_vars

(***************************************************************************)
(* Specification of sync order: offline refills that carry the time they   *)
(* were made at, synced in any order among online refills.                 *)
(***************************************************************************)
\* the times the offline refills were made at, all before the first sync
OfflineTimes == {-2, -1}

OrderSyncReqs ==
    {[RefillReq(k, 1, q, "CASH", RefillPackage.price * q, 0, PaidSplit(q))
        EXCEPT !.created_at = t] :
        k \in Keys, q \in {1, 2}, t \in OfflineTimes}

OrderOnlineReqs ==
    {RefillReq(NoKey, 1, q, "CASH", RefillPackage.price * q, 0, PaidSplit(q)) :
        q \in {1, 2}}

\* a refill made offline is synced: no stored refill was made at its time
OrderSync ==
    \E req \in OrderSyncReqs :
        /\ \/ ShortCircuits(refills, req.client_id)
           \/ /\ Len(refills) < MaxRows
              /\ \A n \in 1..Len(refills) : refills[n].created_at # req.created_at
        /\ RefillCreate(req)

OrderOnline ==
    \E req \in OrderOnlineReqs :
        /\ Len(refills) < MaxRows
        /\ RefillCreate(req)

NextOrder == OrderSync \/ OrderOnline

SpecOrder == InitBatch /\ [][NextOrder]_vars

(***************************************************************************)
(* Specification of manual adjustments alone: every request runs from its  *)
(* stock-level read to its append without another one in between.          *)
(***************************************************************************)
ManualQuantities == -1..2

ManualAdjust ==
    \E item \in Items \cup {"unknown"}, adjustment_type \in AdjustmentTypes,
       quantity \in ManualQuantities :
        /\ Len(stockLog) < MaxLog
        /\ InventoryAdjustmentPost(item, adjustment_type, quantity)

NextManual == ManualAdjust

SpecManual == Init /\ [][NextManual]_vars

(***************************************************************************)
(* Specification of the credit figures for amounts with cents: refills and *)
(* sales of a customer, on credit or paid, and repayments, in hundredths.  *)
(***************************************************************************)
CentCosts == {110, 220}
CentPayments == {110, 330}

CentsRefillReqs ==
    {RefillReq(NoKey, 1, 1, m, cost, 0, PaidSplit(1)) :
        m \in {"CASH", "CREDIT"}, cost \in CentCosts}

CentsSaleReqs ==
    [client_id : {NoKey}, customer : Customers, quantity : {1},
     payment_mode : {"CREDIT"}, cost : {220}]

CentsPaymentReqs ==
    [client_id : {NoKey}, customer : Customers, money_paid : CentPayments,
     payment_mode : {"CASH"}, agent_name : {"agent"}]

CentsRefill == \E req \in CentsRefillReqs : TotalRows <= MaxRows /\ RefillCreate(req)

CentsSale == \E req \in CentsSaleReqs : TotalRows <= MaxRows /\ SalesCreate(req)

CentsPayment == \E req \in CentsPaymentReqs : TotalRows <= MaxRows /\ CreditsCreate(req)

NextCents == CentsRefill \/ CentsSale \/ CentsPayment

SpecCents == InitGate /\ [][NextCents]_vars

(***************************************************************************)
(* Properties.                                                             *)
(***************************************************************************)
RECURSIVE SumChanges(_, _)
\* the sum of quantity_change over the entries of log at the indices in S, in
\* no particular order
SumChanges(log, S) ==
    IF S = {} THEN 0
    ELSE LET i == CHOOSE j \in S : \A k \in S : k <= j
         IN  log[i].quantity_change + SumChanges(log, S \ {i})

\* the level of an item in a log: the sum of its entries, last entry first
LedgerLevel(log, item) ==
    SumChanges(log, {i \in 1..Len(log) : log[i].item = item})

\* log2 is log1 with exactly the entry (item, change) appended
AppendsOne(log1, log2, item, change) ==
    /\ Len(log2) = Len(log1) + 1
    /\ SubSeq(log2, 1, Len(log1)) = log1
    /\ log2[Len(log2)].item = item
    /\ log2[Len(log2)].quantity_change = change

\* C1: after any sequence of manual adjustments and sale/refill deductions
\* the level reported for every stock item is the sum of quantity_change over
\* the item's StockLog entries, in any order; the quantities an adjustment
\* reports (new_quantity, or the current quantity of a refusal) are that sum
\* too, so no counter drifts from the log.
C1_LedgerSum ==
    /\ \A item \in Items : InventoryQuantity(item) = LedgerLevel(stockLog, item)
    /\ (resp.op = "adjust" /\ resp.status = 200) =>
          /\ resp.rec.new_quantity = LedgerLevel(stockLog, resp.request.item)
          /\ resp.rec.previous_quantity + resp.rec.quantity_changed
                = resp.rec.new_quantity
    /\ (resp.op = "adjust" /\ resp.status = 400
            /\ resp.rec.error = "Not enough stock") =>
          resp.rec.current_quantity = LedgerLevel(stockLog, resp.request.item)

\* an accepted add on an item that a sale deduction had driven negative
C1_Witness ==
    /\ resp.op = "adjust" /\ resp.status = 200
    /\ resp.request.adjustment_type = "add"
    /\ \E i \in 1..Len(stockLog) :
          /\ stockLog[i].notes = "sale"
          /\ stockLog[i].item = resp.request.item
    /\ resp.rec.previous_quantity < 0
    /\ InventoryQuantity(resp.request.item) = 0

\* C5: a manual subtract of a valid magnitude m on a stock item at level L is
\* refused with the not-enough-stock error and writes no entry when L - m < 0,
\* and appends exactly one entry with quantity_change = -m when L - m >= 0.
C5_SubtractFloor ==
    [][ (/\ resp'.op = "adjust"
         /\ resp'.request.adjustment_type = "subtract"
         /\ resp'.request.item \in Items
         /\ resp'.request.quantity >= 1) =>
        LET item == resp'.request.item
            m == resp'.request.quantity
            L == LedgerLevel(stockLog, item)
        IN  IF L - m < 0
            THEN /\ stockLog' = stockLog
                 /\ resp'.status = 400
                 /\ resp'.rec.error = "Not enough stock"
                 /\ LedgerLevel(stockLog', item) = L
            ELSE /\ AppendsOne(stockLog, stockLog', item, -m)
                 /\ resp'.status = 200 ]_vars

\* a subtract of 2 refused on an item that holds 1
C5_Witness ==
    /\ resp.op = "adjust" /\ resp.status = 400
    /\ resp.request.adjustment_type = "subtract"
    /\ resp.request.quantity = 2
    /\ resp.rec.error = "Not enough stock"
    /\ LedgerLevel(stockLog, resp.request.item) = 1

\* C6: a manual set to V (V >= 1) appends the entry V - (level at call time),
\* and the level read right after it is exactly V, whatever it was before.
C6_SetExact ==
    [][ (/\ resp'.op = "adjust"
         /\ resp'.request.adjustment_type = "set"
         /\ resp'.request.item \in Items
         /\ resp'.request.quantity >= 1) =>
        LET item == resp'.request.item
            V == resp'.request.quantity
        IN  /\ resp'.status = 200
            /\ AppendsOne(stockLog, stockLog', item, V - LedgerLevel(stockLog, item))
            /\ LedgerLevel(stockLog', item) = V
            /\ resp'.rec.new_quantity = V ]_vars

\* a set to 2 on an item whose level was negative
C6_Witness ==
    /\ resp.op = "adjust" /\ resp.status = 200
    /\ resp.request.adjustment_type = "set"
    /\ resp.request.quantity = 2
    /\ resp.rec.previous_quantity < 0
    /\ InventoryQuantity(resp.request.item) = 2

\* the rows of a table that carry client_id k
RowsWithKey(table, k) == {i \in 1..Len(table) : table[i].client_id = k}

\* the stock log entries a sale wrote for an item
SaleDeductions(log, sale, item) ==
    {i \in 1..Len(log) : /\ log[i].notes = "sale"
                         /\ log[i].ref = sale.id
                         /\ log[i].item = item}

\* C2: create_sale called again with a client_id that a Sale already carries,
\* even with different other fields, returns that Sale as first written and
\* changes no Sale, StockLog or Credits row; so there is one Sale per
\* client_id, each Sale has exactly one bottle and one label deduction, and
\* no Credits posting is duplicated.
C2_SaleIdempotent ==
    /\ [](\A k \in Keys : Cardinality(RowsWithKey(sales, k)) <= 1)
    /\ [](\A n \in 1..Len(sales) : \A item \in {"bottle", "label"} :
            /\ Cardinality(SaleDeductions(stockLog, sales[n], item)) = 1
            /\ \A i \in SaleDeductions(stockLog, sales[n], item) :
                  stockLog[i].quantity_change = -sales[n].quantity)
    /\ [][ (/\ resp'.op = "create_sale"
            /\ resp'.request.client_id # NoKey) =>
           IF RowsWithKey(sales, resp'.request.client_id) # {}
           THEN /\ sales' = sales
                /\ stockLog' = stockLog
                /\ credits' = credits
                /\ \E i \in RowsWithKey(sales, resp'.request.client_id) :
                      resp'.rec = sales[i]
           ELSE /\ sales' = Append(sales, resp'.rec)
                /\ resp'.rec.client_id = resp'.request.client_id
                /\ resp'.rec.quantity = resp'.request.quantity ]_vars

\* a retry that asked for another quantity got the Sale first written
C2_Witness ==
    /\ resp.op = "create_sale" /\ ~resp.created
    /\ resp.request.client_id # NoKey
    /\ resp.request.quantity # resp.rec.quantity
    /\ resp.rec \in {sales[i] : i \in 1..Len(sales)}
    /\ Len(stockLog) = 2 * Len(sales) + 2 * Len(refills)

\* C3: create_refill with a client_id that a Refill already carries returns
\* that Refill unchanged and has no side effect: no Refill row, no stock
\* deduction, no Credits entry ('OfflineSync' or 'CreditUsed', even with
\* credit_applied > 0) and no SMS.
C3_RefillRetry ==
    [][ (/\ resp'.op = "create_refill"
         /\ resp'.request.client_id # NoKey
         /\ RowsWithKey(refills, resp'.request.client_id) # {}) =>
        /\ refills' = refills
        /\ stockLog' = stockLog
        /\ credits' = credits
        /\ sales' = sales
        /\ resp'.sms = "none"
        /\ \E i \in RowsWithKey(refills, resp'.request.client_id) :
              resp'.rec = refills[i] ]_vars

\* a retry carrying credit_applied > 0 and another quantity
C3_Witness ==
    /\ resp.op = "create_refill" /\ ~resp.created
    /\ resp.request.credit_applied > 0
    /\ resp.request.customer # NoCustomer
    /\ resp.request.quantity # resp.rec.quantity
    /\ credits = << >>

GateOps ==
    {"create_sale", "create_refill", "create_credit_payment", "create_expense",
     "create_meter_reading", "create_customer"}

\* the table an entry point writes, among the six given
TableOf(op, s, r, c, e, m, cu) ==
    CASE op = "create_sale" -> s
      [] op = "create_refill" -> r
      [] op = "create_credit_payment" -> c
      [] op = "create_expense" -> e
      [] op = "create_meter_reading" -> m
      [] op = "create_customer" -> cu

\* C4: for each of the six entry points, a call without a key creates a
\* record; a call with a key not yet on a record of that entity creates
\* exactly one record carrying the key; a call with a key already on a record
\* creates nothing and returns that record, which is the one first created
\* with the key since rows are never rewritten. So no entity has two records
\* with the same non-null key.
C4_Gate ==
    /\ [](\A op \in GateOps : \A k \in Keys :
            Cardinality(RowsWithKey(
                TableOf(op, sales, refills, credits, expenses, meterReadings,
                        customers), k)) <= 1)
    /\ [][ resp'.op \in GateOps =>
           LET T1 == TableOf(resp'.op, sales, refills, credits, expenses,
                             meterReadings, customers)
               T2 == TableOf(resp'.op, sales', refills', credits', expenses',
                             meterReadings', customers')
               k == resp'.request.client_id
           IN  IF k # NoKey /\ RowsWithKey(T1, k) # {}
               THEN /\ T2 = T1
                    /\ ~resp'.created
                    /\ \E i \in RowsWithKey(T1, k) : resp'.rec = T1[i]
               ELSE /\ T2 = Append(T1, resp'.rec)
                    /\ resp'.created
                    /\ resp'.rec.client_id = k ]_vars

\* a key already on an expense is new to the customers: the customer call
\* creates its record
C4_Witness ==
    /\ resp.op = "create_customer" /\ resp.created
    /\ resp.request.client_id # NoKey
    /\ RowsWithKey(expenses, resp.request.client_id) # {}
    /\ Cardinality(RowsWithKey(customers, resp.request.client_id)) = 1

\* C7: every committed Refill has free_quantity + paid_quantity = quantity
\* and loyalty_refill_count = paid_quantity.
C7_RefillSplit ==
    \A n \in 1..Len(refills) :
        /\ refills[n].free_quantity + refills[n].paid_quantity = refills[n].quantity
        /\ refills[n].loyalty_refill_count = refills[n].paid_quantity

\* the Credits rows a step appended that carry the 'OfflineSync' tag
OverpaymentsPosted(c1, c2) ==
    {i \in (Len(c1) + 1)..Len(c2) : c2[i].agent_name = "OfflineSync"}

\* C10: create_refill posts an 'OfflineSync' Credits entry exactly when it
\* creates a refill with a client_id and a customer in a shop with interval > 0
\* and the cost charged exceeds price * paid_quantity of the recalculated
\* split; it posts one such entry, with money_paid = cost - price *
\* paid_quantity > 0, for that customer. An online refill never posts one.
C10_Overpayment ==
    [][ resp'.op = "create_refill" =>
        LET req == resp'.request
            posted == OverpaymentsPosted(credits, credits')
            due == /\ resp'.created
                   /\ req.client_id # NoKey
                   /\ req.customer # NoCustomer
                   /\ interval > 0
                   /\ req.cost > RefillPackage.price * resp'.rec.paid_quantity
        IN  /\ SubSeq(credits', 1, Len(credits)) = credits
            /\ IF due
               THEN /\ Cardinality(posted) = 1
                    /\ \A i \in posted :
                          /\ credits'[i].money_paid
                                = req.cost - RefillPackage.price * resp'.rec.paid_quantity
                          /\ credits'[i].money_paid > 0
                          /\ credits'[i].customer = req.customer
               ELSE posted = {} ]_vars

\* an offline refill of two units, one of them free, charged for both
C10_Witness ==
    /\ resp.op = "create_refill" /\ resp.created
    /\ resp.request.client_id # NoKey
    /\ resp.rec.is_partially_free
    /\ credits # << >>
    /\ credits[Len(credits)].agent_name = "OfflineSync"
    /\ credits[Len(credits)].money_paid = RefillPackage.price

RECURSIVE SumCost(_, _)
\* the sum of cost over the rows of a table at the indices in S
SumCost(table, S) ==
    IF S = {} THEN 0
    ELSE LET i == CHOOSE j \in S : TRUE
         IN  table[i].cost + SumCost(table, S \ {i})

RECURSIVE SumMoneyPaid(_, _)
\* the sum of money_paid over the rows of a table at the indices in S
SumMoneyPaid(table, S) ==
    IF S = {} THEN 0
    ELSE LET i == CHOOSE j \in S : TRUE
         IN  table[i].money_paid + SumMoneyPaid(table, S \ {i})

CreditRows(table, c) ==
    {i \in 1..Len(table) : table[i].customer = c /\ table[i].payment_mode = "CREDIT"}

\* total_owed: cost over the customer's CREDIT sales and refills
OwedBy(c, salesT, refillsT) ==
    SumCost(salesT, CreditRows(salesT, c)) + SumCost(refillsT, CreditRows(refillsT, c))

\* total_repaid: money_paid over all the customer's Credits entries
RepaidBy(c, creditsT) ==
    SumMoneyPaid(creditsT, {i \in 1..Len(creditsT) : creditsT[i].customer = c})

Extends(log1, log2) ==
    /\ Len(log2) >= Len(log1)
    /\ \A k \in 1..Len(log1) : log2[k] = log1[k]

\* C19: every operation on the stock log (manual add, subtract and set,
\* rejected adjustments, sale and refill deductions) keeps every entry written
\* before it, unchanged and in place: the log afterwards is the log before with
\* zero or more new entries after it; a rejected adjustment adds none and an
\* accepted one adds exactly one.
C19_AppendOnly ==
    [][ /\ Extends(stockLog, stockLog')
        /\ (resp'.op = "adjust" /\ resp'.status # 200) => stockLog' = stockLog
        /\ (resp'.op = "adjust" /\ resp'.status = 200) =>
                Len(stockLog') = Len(stockLog) + 1 ]_vars

\* a `set` correction was accepted on an item that already had an entry: the
\* old entry is still there and a compensating one follows it
C19_Witness ==
    /\ resp.op = "adjust" /\ resp.status = 200
    /\ resp.request.adjustment_type = "set"
    /\ Len(stockLog) >= 2
    /\ stockLog[1].item = resp.request.item
    /\ stockLog[Len(stockLog)].item = resp.request.item
    /\ stockLog[Len(stockLog)].quantity_change < 0

(***************************************************************************)
(* Overpayment credit and applied credit on the customer's balance.        *)
(***************************************************************************)
\* the step created an offline-synced refill of a customer that was charged
\* in full although the correct split makes every unit free, with no credit
\* applied
FreeButCharged ==
    /\ resp'.op = "create_refill" /\ resp'.created
    /\ resp'.request.client_id # NoKey
    /\ resp'.request.customer # NoCustomer
    /\ resp'.request.credit_applied <= 0
    /\ resp'.rec.free_quantity = resp'.rec.quantity
    /\ resp'.request.cost = RefillPackage.price * resp'.rec.quantity

\* the balance of the step's customer before and after the step
BalanceBefore == credit_balance(resp'.request.customer, sales, refills, credits)
BalanceAfter == credit_balance(resp'.request.customer, sales', refills', credits')

CreditUsedPosted(c1, c2) ==
    {n \in (Len(c1) + 1)..Len(c2) : c2[n].agent_name = "CreditUsed"}

RECURSIVE SumQuantity(_, _)
SumQuantity(table, S) ==
    IF S = {} THEN 0
    ELSE LET n == CHOOSE x \in S : TRUE
         IN  table[n].quantity + SumQuantity(table, S \ {n})

\* the quantity the customer had refilled of the package before the step
CumulativeBefore ==
    SumQuantity(refills, {n \in 1..Len(refills) :
                            /\ refills[n].customer = resp'.request.customer
                            /\ refills[n].package = resp'.request.package})

\* the units of the step's refill that land on a multiple of the interval
CrossingUnits ==
    {u \in (CumulativeBefore + 1)..(CumulativeBefore + resp'.rec.quantity) :
        u % interval = 0}

MappingFails(op, table, required) ==
    /\ resp'.op = op
    /\ resp'.fault = "none"
    /\ resp'.request.client_id = NoKey
            \/ RowsWithKey(table, resp'.request.client_id) = {}
    /\ ~(required \subseteq stockItems)

\* what the refill of the step was charged above the price of its paid units
OverpaidBy(refill) ==
    IF /\ refill.client_id # NoKey /\ refill.customer # NoCustomer /\ interval > 0
       /\ refill.cost > RefillPackage.price * refill.paid_quantity
    THEN refill.cost - RefillPackage.price * refill.paid_quantity
    ELSE 0

\* the credit postings of a created refill are the last entries of credits'
PostingsApplied(refill, A) ==
    LET o == IF OverpaidBy(refill) > 0 THEN 1 ELSE 0
        u == IF A > 0 /\ refill.customer # NoCustomer THEN 1 ELSE 0
    IN  /\ Len(credits') = Len(credits) + o + u
        /\ SubSeq(credits', 1, Len(credits)) = credits
        /\ o = 1 => /\ credits'[Len(credits) + 1].money_paid = OverpaidBy(refill)
                     /\ credits'[Len(credits) + 1].agent_name = "OfflineSync"
        /\ u = 1 => /\ credits'[Len(credits')].money_paid = -A
                     /\ credits'[Len(credits')].agent_name = "CreditUsed"

\* C13: when the deduction of a sale or refill fails on a StockItem mapping
\* that cannot be resolved, the call still succeeds: the record is committed
\* and returned, no stock entry is written, and create_refill still posts its
\* overpayment credit and its applied credit.
C13_NonFatalDeduction ==
    [][ /\ MappingFails("create_sale", sales, RequiredForSale) =>
              /\ resp'.status = 201 /\ resp'.created
              /\ sales' = Append(sales, resp'.rec)
              /\ stockLog' = stockLog
        /\ MappingFails("create_refill", refills, RequiredForRefill) =>
              /\ resp'.status = 201 /\ resp'.created
              /\ refills' = Append(refills, resp'.rec)
              /\ stockLog' = stockLog
              /\ PostingsApplied(resp'.rec, resp'.request.credit_applied) ]_vars

\* in a shop without a cap item an overpaid offline refill with credit applied
\* was committed with both credit postings and no stock entry
C13_Witness ==
    /\ "cap" \notin stockItems
    /\ resp.op = "create_refill" /\ resp.created
    /\ Len(refills) = 2 /\ refills[2] = resp.rec
    /\ stockLog = <<>>
    /\ Len(credits) = 2
    /\ credits[1].agent_name = "OfflineSync"
    /\ credits[2].agent_name = "CreditUsed"

\* the stock entries a record wrote for an item
DeductionsOf(log, kind, rec, item) ==
    {i \in 1..Len(log) : /\ log[i].notes = kind
                         /\ log[i].ref = rec.id
                         /\ log[i].item = item
                         /\ log[i].quantity_change = -rec.quantity}

\* the record has all of its stock entries, or none when the shop lacks a
\* StockItem row the deduction needs
DeductedWhole(log, kind, rec, required) ==
    \A item \in required :
        Cardinality(DeductionsOf(log, kind, rec, item)) =
            IF required \subseteq stockItems THEN 1 ELSE 0

\* no state shows a part of a transaction: every sale and refill has its
\* stock entries, every stock entry and overpayment credit has its record
AllOrNothing ==
    /\ \A n \in 1..Len(sales) : DeductedWhole(stockLog, "sale", sales[n], RequiredForSale)
    /\ \A n \in 1..Len(refills) :
            DeductedWhole(stockLog, "refill", refills[n], RequiredForRefill)
    /\ \A i \in 1..Len(stockLog) :
            /\ stockLog[i].notes = "sale" => stockLog[i].ref \in 1..Len(sales)
            /\ stockLog[i].notes = "refill" => stockLog[i].ref \in 1..Len(refills)
    /\ Cardinality({i \in 1..Len(credits) : credits[i].agent_name = "OfflineSync"})
            = Cardinality({n \in 1..Len(refills) : OverpaidBy(refills[n]) > 0})

\* C14: a create_sale or create_refill call in which an unexpected failure
\* strikes after the record creation, after the deduction or after the
\* overpayment credit leaves no record, stock entry or credit entry behind; a
\* call without one leaves all of them; no reachable state shows a part.
C14_Atomic ==
    /\ []AllOrNothing
    /\ [][ (resp'.op \in {"create_sale", "create_refill"}) =>
              IF resp'.fault # "none"
              THEN /\ resp'.status = 500
                   /\ UNCHANGED <<stockLog, sales, refills, credits>>
              ELSE resp'.created =>
                   /\ resp'.op = "create_sale" => sales' = Append(sales, resp'.rec)
                   /\ resp'.op = "create_refill" =>
                        /\ refills' = Append(refills, resp'.rec)
                        /\ PostingsApplied(resp'.rec, resp'.request.credit_applied)
         ]_vars

\* an overpaid offline refill failed after its overpayment credit was posted:
\* only the earlier refill and its two stock entries are there
C14_Witness ==
    /\ stockItems = Items
    /\ resp.op = "create_refill" /\ resp.status = 500
    /\ resp.fault = "after_overpayment"
    /\ resp.request.client_id # NoKey
    /\ Len(refills) = 1 /\ Len(stockLog) = 2 /\ credits = <<>>

(***************************************************************************)
(* Loyalty figures.                                                        *)
(***************************************************************************)
LoyaltyReads == {"get_loyalty", "get_customer", "export_for_offline"}

\* C17: with freeRefillInterval <= 0 every loyalty computation returns
\* 0/disabled and none divides by zero: the reads of the loyalty status
\* succeed with current_points 0 and free_refills_redeemed 0, a refill reports
\* no free refill available and the next one not free.
C17_LoyaltyDisabled ==
    interval <= 0 =>
        /\ resp.op \in LoyaltyReads =>
              /\ "error" \notin DOMAIN resp.rec
              /\ resp.rec.current_points = 0
              /\ resp.rec.free_refills_redeemed = 0
        /\ resp.op = "get_refill" =>
              /\ resp.rec.free_refills_available = 0
              /\ ~resp.rec.is_next_refill_free

RECURSIVE SumLoyalty(_, _)
SumLoyalty(table, S) ==
    IF S = {} THEN 0
    ELSE LET n == CHOOSE x \in S : TRUE
         IN  table[n].loyalty_refill_count + SumLoyalty(table, S \ {n})

\* the customer's is_free refills
FreeOnes(c) == {n \in 1..Len(refills) : refills[n].customer = c /\ refills[n].is_free}

\* the customer's non-free refills strictly after their most recent is_free
\* refill, all non-free ones if there is none
Window(c) ==
    {n \in 1..Len(refills) :
        /\ refills[n].customer = c
        /\ ~refills[n].is_free
        /\ \A f \in FreeOnes(c) : refills[n].created_at > refills[f].created_at}

Accrued(c) == SumLoyalty(refills, Window(c))

\* the loyalty status of the customer by the accrued-units algorithm
StatusByAccrued(c) ==
    LET redeemed == IF Cardinality(FreeOnes(c)) > Accrued(c) \div interval
                    THEN Cardinality(FreeOnes(c)) ELSE Accrued(c) \div interval
        d == Accrued(c) - redeemed
        points == d - interval * (d \div interval)
    IN  [current_points |-> points,
         refills_until_free |-> IF points > 0 THEN interval - points ELSE interval,
         free_refills_redeemed |-> redeemed]

\* C18: for interval > 0 the loyalty status read for a customer is, for every
\* refill history, free_refills_redeemed = max(number of is_free refills,
\* accrued // interval), current_points = (accrued - free_refills_redeemed)
\* mod interval and refills_until_free = interval - current_points if
\* current_points > 0 else interval, with accrued the sum of
\* loyalty_refill_count over the non-free refills after the last free one.
C18_LoyaltyStatus ==
    (interval > 0 /\ resp.op = "get_loyalty") =>
        resp.rec = StatusByAccrued(resp.request.customer)

\* C28: for every refill history and every interval > 0, the loyalty status
\* returned has 0 <= current_points < interval and 1 <= refills_until_free <=
\* interval, also when the customer has more is_free refills than their total
\* refill quantity divided by the interval.
C28_StatusBounds ==
    (interval > 0 /\ resp.op \in LoyaltyReads) =>
        /\ "error" \notin DOMAIN resp.rec
        /\ 0 <= resp.rec.current_points
        /\ resp.rec.current_points < interval
        /\ 1 <= resp.rec.refills_until_free
        /\ resp.rec.refills_until_free <= interval

\* the export read the status of a customer with two free refills of one
\* unit, more than their quantity of 2 divided by the interval 2
C28_Witness ==
    /\ interval = 2
    /\ resp.op = "export_for_offline"
    /\ FreeRefills(refills, resp.request.customer) = 2
    /\ RefillQuantities(refills, resp.request.customer) = 2
    /\ resp.rec.free_refills_redeemed = 2
    /\ resp.rec.current_points = 0
    /\ resp.rec.refills_until_free = 2

(***************************************************************************)
(* Concurrent requests.                                                    *)
(***************************************************************************)
\* worker w finishes a subtract in this step
FinishesSubtract(w) ==
    /\ inflight[w].pc = "adjust"
    /\ inflight'[w].pc = "idle"
    /\ inflight[w].adjustment_type = "subtract"

\* C15: a manual subtract is checked against the level it read when it
\* started, not against the level at the time it appends: it appends -m
\* exactly when the level read minus m is not negative, also when another
\* subtract has appended in between; so two concurrent subtracts that both read
\* before either appends both pass and both append, and a negative level is
\* reached from a non-negative one by manual subtracts alone.
C15_SubtractRace ==
    [][ \A w \in Workers : FinishesSubtract(w) =>
          IF inflight[w].current_quantity - inflight[w].quantity >= 0
          THEN /\ stockLog' = Append(stockLog,
                        [item |-> inflight[w].item,
                         quantity_change |-> -inflight[w].quantity,
                         notes |-> "Manual adjustment", ref |-> 0])
               /\ resp'.status = 200
          ELSE /\ stockLog' = stockLog
               /\ resp'.status = 400 ]_vars

\* two subtracts of 1 were both accepted on a level of 1: the level is -1 and
\* the second response reports new_quantity 0
C15_Witness ==
    /\ Len(stockLog) = 3
    /\ stockLog[1].quantity_change = 1
    /\ stockLog[2].quantity_change = -1
    /\ stockLog[3].quantity_change = -1
    /\ \A i \in 1..3 : stockLog[i].item = "bottle"
                         /\ stockLog[i].notes = "Manual adjustment"
    /\ LedgerLevel(stockLog, "bottle") = -1
    /\ resp.op = "adjust" /\ resp.status = 200
    /\ resp.request.adjustment_type = "subtract"
    /\ resp.rec.previous_quantity = 1 /\ resp.rec.new_quantity = 0

\* C16: for any interleaving of two concurrent create calls (sale, refill or
\* credit payment) with the same not-yet-seen client_id, exactly one record
\* with that key exists afterwards, and its inventory deduction and credit
\* postings are applied once.
C16_OneRecordPerKey ==
    \A k \in Keys :
        /\ Cardinality(RowsWithKey(sales, k)) <= 1
        /\ Cardinality(RowsWithKey(refills, k)) <= 1
        /\ Cardinality(RowsWithKey(credits, k)) <= 1
        /\ Cardinality({i \in 1..Len(stockLog) :
                /\ stockLog[i].notes = "sale" /\ stockLog[i].item = "bottle"
                /\ stockLog[i].ref \in RowsWithKey(sales, k)}) <= 1
        /\ Cardinality({i \in 1..Len(stockLog) :
                /\ stockLog[i].notes = "refill" /\ stockLog[i].item = "cap"
                /\ stockLog[i].ref \in RowsWithKey(refills, k)}) <= 1

(***************************************************************************)
(* SMS notifications.                                                      *)
(***************************************************************************)
\* the customer is one unit away from a free refill: the units accrued since
\* their last free refill fall one short of a multiple of the interval
OneUnitAway(c) == interval > 0 /\ Accrued(c) % interval = interval - 1

\* C21: SMS notifications are sent only for online transactions: a
\* create_refill call that carries a client_id sends none; an online refill
\* with a customer sends the thank-you SMS when its free_quantity > 0, and
\* otherwise the nearly-free notification exactly when, with this refill
\* counted, the customer is one unit away from a free refill.
C21_SmsOnlineOnly ==
    [][ resp'.op = "create_refill" =>
          /\ resp'.request.client_id # NoKey => resp'.sms = "none"
          /\ \A c \in Customers :
                (/\ resp'.created
                 /\ resp'.request.client_id = NoKey
                 /\ resp'.request.customer = c) =>
                    IF resp'.rec.free_quantity > 0
                    THEN resp'.sms = "thank_you"
                    ELSE IF OneUnitAway(c)' THEN resp'.sms = "nearly_free"
                    ELSE resp'.sms = "none" ]_vars

\* an online refill of two units after a partially free offline-synced one
\* left the customer one unit from the next free refill: the notification
\* went out, and none had gone out for the synced refill
C21_Witness ==
    /\ resp.op = "create_refill" /\ resp.created
    /\ resp.request.client_id = NoKey
    /\ resp.request.customer # NoCustomer
    /\ resp.sms = "nearly_free"
    /\ Len(refills) = 2
    /\ refills[1].client_id # NoKey /\ refills[1].is_partially_free
    /\ refills[2] = resp.rec /\ resp.rec.quantity = 2

(***************************************************************************)
(* The cost of an offline-synced refill.                                   *)
(***************************************************************************)
\* C22: the cost of an offline-synced refill is never recalculated: the
\* committed Refill carries the cost the device supplied, also when the
\* reconciliation rewrites free_quantity, paid_quantity, loyalty_refill_count,
\* is_free and is_partially_free; no earlier Refill is touched, and what was
\* charged above the price of the paid units is compensated by a separate
\* Credits entry only.
C22_CostKept ==
    [][ (/\ resp'.op = "create_refill" /\ resp'.created
         /\ resp'.request.client_id # NoKey) =>
          /\ resp'.rec.cost = resp'.request.cost
          /\ refills' = Append(refills, resp'.rec)
          /\ (/\ resp'.request.customer # NoCustomer
              /\ resp'.rec.cost > RefillPackage.price * resp'.rec.paid_quantity
              /\ interval > 0) =>
                /\ OverpaymentsPosted(credits, credits') # {}
                /\ \A i \in OverpaymentsPosted(credits, credits') :
                      credits'[i].money_paid =
                          resp'.rec.cost - RefillPackage.price * resp'.rec.paid_quantity
         ]_vars

\* a synced refill of two units sent as fully paid was stored with one unit
\* free and the rewritten flags, and still carries the cost of two units
C22_Witness ==
    /\ resp.op = "create_refill" /\ resp.created
    /\ resp.request.client_id # NoKey
    /\ resp.request.free_quantity = 0 /\ ~resp.request.is_partially_free
    /\ resp.rec.free_quantity = 1 /\ resp.rec.is_partially_free
    /\ resp.rec.loyalty_refill_count = 1
    /\ refills[Len(refills)] = resp.rec
    /\ resp.rec.cost = RefillPackage.price * 2

(***************************************************************************)
(* The split of an offline-synced refill.                                  *)
(***************************************************************************)
\* the step created an offline-synced refill of customer c in a shop with
\* the loyalty programme on
SyncsRefillOf(c) ==
    /\ resp'.op = "create_refill" /\ resp'.created
    /\ resp'.request.client_id # NoKey
    /\ resp'.request.customer = c
    /\ interval > 0

\* C27: for every offline-synced refill with a customer, interval > 0 and
\* quantity >= 1, the computed split has 0 <= free_quantity <= quantity and
\* paid_quantity = quantity - free_quantity >= 0; is_free holds exactly when
\* free_quantity > 0 and paid_quantity = 0, is_partially_free exactly when
\* both are > 0, and the two flags are never both true.
C27_SplitBounds ==
    [][ \A c \in Customers : (SyncsRefillOf(c) /\ resp'.request.quantity >= 1) =>
          LET r == refills'[Len(refills')]
          IN  /\ r = resp'.rec
              /\ 0 <= r.free_quantity /\ r.free_quantity <= r.quantity
              /\ r.paid_quantity = r.quantity - r.free_quantity
              /\ r.paid_quantity >= 0
              /\ r.is_free <=> (r.free_quantity > 0 /\ r.paid_quantity = 0)
              /\ r.is_partially_free <=> (r.free_quantity > 0 /\ r.paid_quantity > 0)
              /\ ~(r.is_free /\ r.is_partially_free) ]_vars

\* the batch stored a wholly free refill and a partially free one
C27_Witness ==
    /\ \E n \in SyncedRows(refills) :
          refills[n].is_free /\ ~refills[n].is_partially_free
    /\ \E n \in SyncedRows(refills) :
          /\ refills[n].is_partially_free /\ ~refills[n].is_free
          /\ refills[n].free_quantity = 1 /\ refills[n].paid_quantity = 2

RECURSIVE SumFree(_, _)
SumFree(table, S) ==
    IF S = {} THEN 0
    ELSE LET n == CHOOSE x \in S : TRUE
         IN  table[n].free_quantity + SumFree(table, S \ {n})

\* the customer's rows of the package the batch refills
PackageRows(table) ==
    {n \in 1..Len(table) : table[n].customer = 1 /\ table[n].package = RefillPackage.id}

\* T0: the quantity stored for the customer and package before the batch
StoredBeforeBatch == SumQuantity(refills, PackageRows(refills) \ SyncedRows(refills))

\* C25: for interval I > 0 and a customer/package whose stored refill
\* quantity totals T0, syncing a batch of offline refills with quantities
\* q1..qn (distinct client_ids) in any order, retries included, grants a total
\* free_quantity of floor((T0 + q1 + ... + qn) / I) - floor(T0 / I): no
\* threshold is counted twice or skipped, whatever the order.
C25_BatchTotal ==
    interval > 0 =>
        SumFree(refills, SyncedRows(refills)) =
            (SumQuantity(refills, PackageRows(refills)) \div interval)
                - (StoredBeforeBatch \div interval)

\* interval 2 and a stored quantity of 3: a batch of 3 and 2 units, the higher
\* key synced first, took the total to 8 and was granted the 3 free units of
\* the thresholds 4, 6 and 8
C25_Witness ==
    /\ interval = 2
    /\ StoredBeforeBatch = 3
    /\ Cardinality(SyncedRows(refills)) = 2
    /\ \E a, b \in SyncedRows(refills) :
          /\ a < b
          /\ refills[a].client_id > refills[b].client_id
          /\ refills[a].quantity = 3 /\ refills[b].quantity = 2
    /\ SumFree(refills, SyncedRows(refills)) = 3

\* the units of a refill of q units that take the units the customer has
\* accrued since their last free refill to a multiple of the interval
UnitsFreeByAccrued(c, q) ==
    {u \in (Accrued(c) + 1)..(Accrued(c) + q) : u % interval = 0}

\* C23: the free/paid split that create_refill computes for an offline-synced
\* refill is the split of the loyalty calculator: with accrued the sum of
\* loyalty_refill_count over the customer's non-free refills since their last
\* free refill, a unit is free when it takes accrued to a multiple of the
\* interval; for every refill history, with earlier free refills and refills
\* of several packages.
C23_SplitByCalculator ==
    [][ \A c \in Customers : SyncsRefillOf(c) =>
          /\ resp'.rec.free_quantity =
                Cardinality(UnitsFreeByAccrued(c, resp'.request.quantity))
          /\ resp'.rec.paid_quantity =
                resp'.request.quantity
                    - Cardinality(UnitsFreeByAccrued(c, resp'.request.quantity))
      ]_vars

(***************************************************************************)
(* Sync order.                                                             *)
(***************************************************************************)
\* the quantity the customer had refilled of the package before time t
QuantityBeforeTime(c, package, t) ==
    SumQuantity(refills, {n \in 1..Len(refills) :
                            /\ refills[n].customer = c
                            /\ refills[n].package = package
                            /\ refills[n].created_at < t})

\* the free units of refill n by the customer's history as of its own time
FreeAsOfOwnTime(n) ==
    LET before == QuantityBeforeTime(refills[n].customer, refills[n].package,
                                     refills[n].created_at)
    IN  Cardinality({u \in (before + 1)..(before + refills[n].quantity) :
                        u % interval = 0})

\* C24: the free/paid split, and hence the overpayment credit, of an
\* offline-synced refill reflects the customer's refill history as of that
\* refill's own timestamp, so each refill of a set gets the same split whether
\* the set is synced in chronological order or in any other.
C24_SyncOrder ==
    interval > 0 =>
        \A n \in SyncedRows(refills) :
            /\ refills[n].free_quantity = FreeAsOfOwnTime(n)
            /\ refills[n].paid_quantity = refills[n].quantity - FreeAsOfOwnTime(n)

(***************************************************************************)
(* Manual adjustments alone.                                               *)
(***************************************************************************)
\* C26: when manual adjustments are the only writers of an item's log and
\* each runs its read-then-append without interleaving, the level of every
\* item is never negative in any state reachable from the empty log: add and
\* set only take a strictly positive magnitude, and a subtract that would go
\* below zero is rejected.
C26_LevelNotNegative ==
    \A item \in Items :
        /\ LedgerLevel(stockLog, item) >= 0
        /\ InventoryQuantity(item) >= 0

\* an item was set to 2, taken down by 2 to exactly zero, and a further
\* subtract was refused
C26_Witness ==
    /\ Len(stockLog) = 2
    /\ stockLog[1].item = "cap" /\ stockLog[2].item = "cap"
    /\ stockLog[1].quantity_change = 2 /\ stockLog[2].quantity_change = -2
    /\ LedgerLevel(stockLog, "cap") = 0
    /\ resp.op = "adjust" /\ resp.status = 400
    /\ resp.request.adjustment_type = "subtract" /\ resp.request.item = "cap"
    /\ resp.rec.error = "Not enough stock"

\* C30: a manual adjustment whose magnitude is zero or negative is rejected
\* by validation for every adjustment type and writes no StockLog entry; so an
\* accepted set has a target V >= 1, the level right after it is V, and no set
\* leaves an item at level 0.
C30_MagnitudeValidated ==
    [][ resp'.op = "adjust" =>
          /\ resp'.request.quantity <= 0 =>
                /\ resp'.status = 400
                /\ resp'.rec.error = "Quantity must be a positive number"
                /\ stockLog' = stockLog
          /\ (resp'.request.adjustment_type = "set" /\ stockLog' # stockLog) =>
                /\ resp'.request.quantity >= 1
                /\ LedgerLevel(stockLog', resp'.request.item)
                      = resp'.request.quantity
                /\ LedgerLevel(stockLog', resp'.request.item) # 0 ]_vars

\* a set to 0 on an item holding 2 was rejected and the item still holds 2
C30_Witness ==
    /\ resp.op = "adjust" /\ resp.status = 400
    /\ resp.request.adjustment_type = "set"
    /\ resp.request.quantity = 0
    /\ resp.rec.error = "Quantity must be a positive number"
    /\ LedgerLevel(stockLog, resp.request.item) = 2

(***************************************************************************)
(* The two credit read paths.                                              *)
(***************************************************************************)
\* C29: the two credit read paths agree on every history: the outstanding of
\* the customer-insight path equals max(0, -credit_balance), credit_balance
\* being the value export_for_offline reports for the same customer;
\* outstanding is never negative, and outstanding > 0 exactly when
\* credit_balance < 0.
C29_PathsAgree ==
    \A c \in Customers :
        LET outstanding == get_credit_info(c, sales, refills, credits).outstanding
            balance == export_for_offline_credit_balance(c, sales, refills, credits)
        IN  /\ outstanding >= 0
            /\ float(outstanding) =
                  (IF FloatIsNegative(balance) THEN FloatNeg(balance) ELSE FloatZero)
            /\ outstanding > 0 <=> FloatIsNegative(balance)

====
